---- MODULE Spec2Model ----
(***************************************************************************)
(* Model of the RGB/LCh colour-space engine of PerceptualColor             *)
(* (src/src/rgbcolorspace.cpp, src/src/polarpointf.cpp,                    *)
(* src/src/chromalightnessimage.h).                                        *)
(*                                                                         *)
(* Numbers.  All lightness, chroma, a and b values are integers counted in *)
(* units of gamutPrecision / 2^BisectionDepth, so that the halving of the  *)
(* chroma bisection is exact, as it is for binary floating point.  The     *)
(* value 100 of the source is the definition Hundred.  Angles are integer  *)
(* degrees and only multiples of 90 are used, for which the polar to       *)
(* Cartesian conversion is exact.  RGB channels are integers with 1.0      *)
(* written One.                                                            *)
(***************************************************************************)
EXTENDS Integers, Sequences, FiniteSets, TLC

(***************************************************************************)
(* Bounds of the model                                                     *)
(***************************************************************************)
\* number of halvings that stay exact: chroma inputs up to 2^BisectionDepth
\* steps of gamutPrecision are bisected without rounding
BisectionDepth == 4
\* rows of the nearest-neighbour raster (scaled down)
nearestNeighborSearchImageHeight == 3
\* steps of gamutPrecision between two raster rows
TicksPerRow == 2
\* LchValues::humanMaximumChroma, in steps of gamutPrecision
humanMaximumChroma == 5
\* the gray axis of a profile ends within MaxMargin steps of 0 and of 100
MaxMargin == 1
\* largest chroma reach of a profile, in steps of gamutPrecision
MaxReach == 2
\* chroma inputs run over -MaxChromaInput..MaxChromaInput steps, plus FarChroma
MaxChromaInput == 2
\* one chroma input far outside the raster, in steps of gamutPrecision
FarChroma == 12

(***************************************************************************)
(* Units and program constants                                             *)
(***************************************************************************)
gamutPrecision == 2 ^ BisectionDepth

LMaxTicks == (nearestNeighborSearchImageHeight - 1) * TicksPerRow

\* the literal 100 (maximum lightness) of the source
Hundred == LMaxTicks * gamutPrecision

\* upper limit of an RGB channel in isInRange(0, x, 1)
One == 1

Abs(x) == IF x < 0 THEN -x ELSE x

(***************************************************************************)
(* Qt / libm helpers, computed as the libraries compute them               *)
(***************************************************************************)
\* C integer division, truncating towards zero
TruncDiv(x, y) == IF x >= 0 THEN x \div y ELSE -((-x) \div y)

\* fmod(x, y) for y > 0: the result has the sign of x
Fmod(x, y) == x - y * TruncDiv(x, y)

\* qRound(p / q) for q > 0: nearest integer, halves away from zero
qRound(p, q) == IF p >= 0 THEN (2 * p + q) \div (2 * q)
                ELSE -((2 * (-p) + q) \div (2 * q))

CosDeg(h) == CASE h % 360 = 0 -> 1
               [] h % 360 = 90 -> 0
               [] h % 360 = 180 -> -1
               [] h % 360 = 270 -> 0

SinDeg(h) == CASE h % 360 = 0 -> 0
               [] h % 360 = 90 -> 1
               [] h % 360 = 180 -> 0
               [] h % 360 = 270 -> -1

(***************************************************************************)
(* PolarPointF                                                             *)
(***************************************************************************)
\* variant: the negative remainder of fmod is returned as it is
normalizedAngleDegree_NoWrap(angleDegree) == Fmod(angleDegree, 360)

normalizedAngleDegree(angleDegree) ==
    LET temp == Fmod(angleDegree, 360)
    IN  IF temp < 0 THEN temp + 360 ELSE temp

\* variant: a negative radial is negated without turning the angle by 180
PolarPointF_NoTurn(newRadial, newAngleDegree) ==
    IF newRadial < 0
    THEN [m_radial |-> newRadial * (-1),
          m_angleDegree |-> normalizedAngleDegree(newAngleDegree)]
    ELSE [m_radial |-> newRadial,
          m_angleDegree |-> normalizedAngleDegree(newAngleDegree)]

PolarPointF(newRadial, newAngleDegree) ==
    IF newRadial < 0
    THEN [m_radial |-> newRadial * (-1),
          m_angleDegree |-> normalizedAngleDegree(newAngleDegree + 180)]
    ELSE [m_radial |-> newRadial,
          m_angleDegree |-> normalizedAngleDegree(newAngleDegree)]

(***************************************************************************)
(* The arithmetic of qreal (double).  The widgets and PolarPointF take any *)
(* double, so their model keeps what double arithmetic does to a sum: the  *)
(* exact result is rounded to the nearest value the format holds, halves   *)
(* to the even significand.  The format here has SignificandBits bits      *)
(* instead of 53, and its values are counted in units of the smallest      *)
(* step of the format; an angle of one degree is Degree units.             *)
(***************************************************************************)
SignificandBits == 9

\* the double 1.0, in units
DoubleOne == 4

\* an angle of one degree is the double 1.0
Degree == DoubleOne

FullTurn == 360 * Degree

RECURSIVE pow2(_)
pow2(n) == IF n = 0 THEN 1 ELSE 2 * pow2(n - 1)

magnitude(x) == IF x < 0 THEN -x ELSE x

\* the distance between neighbouring doubles at the magnitude of x
RECURSIVE ulpFrom(_, _)
ulpFrom(x, u) == IF x < pow2(SignificandBits) * u THEN u ELSE ulpFrom(x, 2 * u)

ulp(x) == ulpFrom(magnitude(x), 1)

\* the double that an operation with the exact result x returns
roundToDouble(x) ==
    LET a == magnitude(x)
        u == ulp(a)
        q == a \div u
        r == a % u
        up == (2 * r > u) \/ (2 * r = u /\ q % 2 = 1)
        m == (IF up THEN q + 1 ELSE q) * u
    IN  IF x < 0 THEN -m ELSE m

isDouble(x) == roundToDouble(x) = x

\* normalizedAngleDegree() on doubles
normalizedAngleDegreeDouble(angleDegree) ==
    LET temp == Fmod(angleDegree, FullTurn)
    IN  IF temp < 0 THEN roundToDouble(temp + FullTurn) ELSE temp

\* PolarPointF(newRadial, newAngleDegree) on doubles
PolarPointFDouble(newRadial, newAngleDegree) ==
    IF newRadial < 0
    THEN [m_radial |-> newRadial * (-1),
          m_angleDegree |->
              normalizedAngleDegreeDouble(roundToDouble(newAngleDegree + 180 * Degree))]
    ELSE [m_radial |-> newRadial,
          m_angleDegree |-> normalizedAngleDegreeDouble(newAngleDegree)]

(***************************************************************************)
(* MultiSpinBox.  A section is its SectionData without prefix and suffix   *)
(* (both empty).  A text is the sequence of what it shows, one entry per   *)
(* section: a number, or NotANumber for characters that are no number      *)
(* (none at all included).  The empty sequence is the empty text.          *)
(***************************************************************************)
\* a text that shows the number n
Numeral(n) == [ok |-> TRUE, number |-> n]

NotANumber == [ok |-> FALSE, number |-> 0]

\* SectionData(): the member defaults of the struct
SectionData ==
    [minimum |-> 0, maximum |-> 100 * DoubleOne, value |-> 0, isWrapping |-> FALSE,
     decimals |-> 2]

qBound(min, val, max) ==
    LET qMin == IF max < val THEN max ELSE val
    IN  IF min < qMin THEN qMin ELSE min

fixedSection(section) ==
    IF section.isWrapping
    THEN LET rangeWidth == roundToDouble(section.maximum - section.minimum)
         IN  IF rangeWidth <= 0
             THEN [section EXCEPT !.value = section.minimum]
             ELSE LET fmodResult ==
                          Fmod(roundToDouble(section.value - section.minimum), rangeWidth)
                      temp == IF fmodResult < 0
                              THEN roundToDouble(fmodResult + rangeWidth)
                              ELSE fmodResult
                  IN  [section EXCEPT !.value = roundToDouble(temp + section.minimum)]
    ELSE [section EXCEPT
              !.value = qBound(section.minimum, section.value, section.maximum)]

\* QLocale::toString(value, 'f', decimals): the number the text shows.
\* With two decimals every double of the format is shown exactly; with no
\* decimals the text shows the nearest whole number.
formattedValue(mySection) ==
    IF mySection.decimals = 0
    THEN Numeral(qRound(mySection.value, DoubleOne) * DoubleOne)
    ELSE Numeral(mySection.value)

\* QLocale::toDouble(text, &ok): 0 when the text is not a number
toDouble(text) == IF text.ok THEN roundToDouble(text.number) ELSE 0

\* the text that m_textBeforeCurrentValue + m_textOfCurrentValue
\* + m_textAfterCurrentValue is
composedText(sb) ==
    sb.m_textBeforeCurrentValue \o <<sb.m_textOfCurrentValue>> \o sb.m_textAfterCurrentValue

\* updatePrefixValueSuffixText(), for a current index within the list
updatePrefixValueSuffixText(sb) ==
    LET i == sb.m_currentIndex + 1
        n == Len(sb.m_sections)
    IN  [sb EXCEPT
            !.m_textBeforeCurrentValue =
                [k \in 1..(i - 1) |-> formattedValue(sb.m_sections[k])],
            !.m_textOfCurrentValue = formattedValue(sb.m_sections[i]),
            !.m_textAfterCurrentValue =
                [k \in 1..(n - i) |-> formattedValue(sb.m_sections[i + k])]]

\* m_validator->setPrefix(), setSuffix() and setRange()
validatorUpdated(sb) ==
    [sb EXCEPT !.m_validator =
        [prefix |-> sb.m_textBeforeCurrentValue, suffix |-> sb.m_textAfterCurrentValue,
         bottom |-> sb.m_sections[sb.m_currentIndex + 1].minimum,
         top |-> sb.m_sections[sb.m_currentIndex + 1].maximum]]

\* setCurrentIndexWithoutUpdatingText(newIndex), for a newIndex within the
\* list (every caller passes one)
setCurrentIndexWithoutUpdatingText(sb, newIndex) ==
    IF newIndex = sb.m_currentIndex
    THEN sb
    ELSE validatorUpdated(updatePrefixValueSuffixText([sb EXCEPT !.m_currentIndex = newIndex]))

\* setCurrentIndexAndUpdateTextAndSelectValue(newIndex): the signals of the
\* line edit are blocked while its text is set
setCurrentIndexAndUpdateTextAndSelectValue(sb, newIndex) ==
    LET indexed == setCurrentIndexWithoutUpdatingText(sb, newIndex)
    IN  [indexed EXCEPT !.lineEdit = composedText(indexed)]

startsWith(text, start) ==
    Len(text) >= Len(start) /\ SubSeq(text, 1, Len(start)) = start

endsWith(text, end) ==
    Len(text) >= Len(end) /\ SubSeq(text, Len(text) - Len(end) + 1, Len(text)) = end

\* lineEditText without m_textBeforeCurrentValue at its start
afterRemove(sb, lineEditText) ==
    SubSeq(lineEditText, Len(sb.m_textBeforeCurrentValue) + 1, Len(lineEditText))

\* what is left of lineEditText as the text of the value: one number, or
\* something that is not a number
cleanText(sb, lineEditText) ==
    LET removed == afterRemove(sb, lineEditText)
        chopped == SubSeq(removed, 1, Len(removed) - Len(sb.m_textAfterCurrentValue))
    IN  IF Len(chopped) = 1 THEN chopped[1] ELSE NotANumber

\* the two tests that make updateCurrentValueFromText return early
textIsFramed(sb, lineEditText) ==
    /\ startsWith(lineEditText, sb.m_textBeforeCurrentValue)
    /\ endsWith(afterRemove(sb, lineEditText), sb.m_textAfterCurrentValue)

\* the members after updateCurrentValueFromText(lineEditText)
updateCurrentValueFromText(sb, lineEditText) ==
    IF ~textIsFramed(sb, lineEditText)
    THEN sb
    ELSE LET i == sb.m_currentIndex + 1
             parsed == [sb.m_sections[i] EXCEPT
                            !.value = toDouble(cleanText(sb, lineEditText))]
         IN  updatePrefixValueSuffixText([sb EXCEPT !.m_sections[i] = fixedSection(parsed)])

\* QLineEdit::setText(): textChanged is emitted when the text differs, and
\* the connected slot updateCurrentValueFromText runs
setTextWithSignal(sb, text) ==
    IF text = sb.lineEdit
    THEN sb
    ELSE updateCurrentValueFromText([sb EXCEPT !.lineEdit = text], text)

\* the sections that the loop of setSections() appends
appendedSections(newSections) ==
    [i \in 1..Len(newSections) |->
        LET tempSection == newSections[i]
        IN  fixedSection(IF tempSection.maximum < tempSection.minimum
                         THEN [tempSection EXCEPT !.maximum = tempSection.minimum]
                         ELSE tempSection)]

\* the members after setSections(newSections) when m_currentIndex is an
\* index of the new list
setSections(sb, newSections) ==
    IF Len(newSections) < 1
    THEN sb
    ELSE LET appended == updatePrefixValueSuffixText(
                             [sb EXCEPT !.m_sections = appendedSections(newSections)])
             shown == setTextWithSignal(appended, composedText(appended))
         IN  setCurrentIndexAndUpdateTextAndSelectValue(shown, 0)

stepBy(sb, steps) ==
    LET i == sb.m_currentIndex + 1
        stepped == [sb.m_sections[i] EXCEPT
                        !.value = roundToDouble(sb.m_sections[i].value + steps * DoubleOne)]
    IN  setCurrentIndexAndUpdateTextAndSelectValue(
            updatePrefixValueSuffixText([sb EXCEPT !.m_sections[i] = fixedSection(stepped)]),
            sb.m_currentIndex)

\* variant: Tab on the last section goes on with the first one
focusNextPrevChild_Around(sb, next) ==
    IF next
    THEN [setCurrentIndexAndUpdateTextAndSelectValue(
              sb, (sb.m_currentIndex + 1) % Len(sb.m_sections)) EXCEPT !.result = "true"]
    ELSE IF sb.m_currentIndex > 0
         THEN [setCurrentIndexAndUpdateTextAndSelectValue(sb, sb.m_currentIndex - 1)
                   EXCEPT !.result = "true"]
         ELSE [sb EXCEPT !.result = "QWidget::focusNextPrevChild"]

\* result is "true", or the call of the base class whose result is returned
focusNextPrevChild(sb, next) ==
    IF next
    THEN IF sb.m_currentIndex < Len(sb.m_sections) - 1
         THEN [setCurrentIndexAndUpdateTextAndSelectValue(sb, sb.m_currentIndex + 1)
                   EXCEPT !.result = "true"]
         ELSE [sb EXCEPT !.result = "QWidget::focusNextPrevChild"]
    ELSE IF sb.m_currentIndex > 0
         THEN [setCurrentIndexAndUpdateTextAndSelectValue(sb, sb.m_currentIndex - 1)
                   EXCEPT !.result = "true"]
         ELSE [sb EXCEPT !.result = "QWidget::focusNextPrevChild"]

\* the slot of editingFinished
setCurrentIndexToZeroAndUpdateTextAndSelectValue(sb) ==
    setCurrentIndexAndUpdateTextAndSelectValue(sb, 0)

\* focusOutEvent after QAbstractSpinBox::focusOutEvent(event) has run
focusOutEvent(sb, reason) ==
    IF reason \in {"ShortcutFocusReason", "TabFocusReason", "BacktabFocusReason",
                   "MouseFocusReason"}
    THEN setCurrentIndexAndUpdateTextAndSelectValue(sb, 0)
    ELSE sb

\* focusInEvent after QAbstractSpinBox::focusInEvent(event) has run
focusInEvent(sb, reason) ==
    IF reason \in {"ShortcutFocusReason", "TabFocusReason"}
    THEN setCurrentIndexAndUpdateTextAndSelectValue(sb, 0)
    ELSE IF reason = "BacktabFocusReason"
    THEN setCurrentIndexAndUpdateTextAndSelectValue(sb, Len(sb.m_sections) - 1)
    ELSE sb

\* the section that the loop of reactOnCursorPositionChange finds for the
\* cursor position newPos; every section is one position wide
sectionOfTheNewCursorPosition(sb, newPos) ==
    LET n == Len(sb.m_sections)
        stops == { k \in 0..(n - 2) : newPos <= k + 1 }
    IN  IF stops = {} THEN n - 1 ELSE CHOOSE k \in stops : \A j \in stops : k <= j

isCursorPositionAtCurrentSectionValue(sb, cursorPosition) ==
    /\ cursorPosition >= Len(sb.m_textBeforeCurrentValue)
    /\ cursorPosition <= Len(sb.lineEdit) - Len(sb.m_textAfterCurrentValue)

\* reactOnCursorPositionChange(oldPos, newPos): the signals of the line edit
\* are blocked while its text is set
reactOnCursorPositionChange(sb, newPos) ==
    IF isCursorPositionAtCurrentSectionValue(sb, newPos)
    THEN sb
    ELSE LET indexed == setCurrentIndexWithoutUpdatingText(
                            updatePrefixValueSuffixText(sb),
                            sectionOfTheNewCursorPosition(sb, newPos))
         IN  [indexed EXCEPT !.lineEdit = composedText(indexed)]

\* the members of a MultiSpinBox while its constructor runs, before the
\* call of setSections; handler, argument and result record the last call,
\* readBeyondEnd whether a call read m_sections beyond its end
SpinBoxUnconfigured ==
    [m_sections |-> <<>>, m_currentIndex |-> 0,
     m_textBeforeCurrentValue |-> <<>>, m_textOfCurrentValue |-> Numeral(0),
     m_textAfterCurrentValue |-> <<>>,
     m_validator |-> [prefix |-> <<>>, suffix |-> <<>>, bottom |-> 0, top |-> 0],
     lineEdit |-> <<>>, aborted |-> FALSE, calls |-> 0,
     handler |-> "MultiSpinBox", argument |-> "none", result |-> "none",
     readBeyondEnd |-> FALSE]

\* the members of a MultiSpinBox after its construction
SpinBoxConstructed ==
    LET configured == setSections(SpinBoxUnconfigured, <<SectionData>>)
    IN  setCurrentIndexAndUpdateTextAndSelectValue(
            [configured EXCEPT !.m_currentIndex = -1], 0)

(***************************************************************************)
(* The colour-transform backend (LittleCMS with the caller's profile).     *)
(* A profile is described by the part of the gray axis it can reproduce    *)
(* (lo..hi steps, optionally with one unreachable lightness in "holes"), by    *)
(* the chroma it reaches around the gray axis, and by a shape: "plain"     *)
(* (same reach for every hue), "axis" (chroma only along the a axis) or    *)
(* "island" (in addition an isolated reproducible chroma beyond the        *)
(* reach).  lo > hi is a profile without any reproducible gray.            *)
(* A gap is a single lightness at which gray is not reproducible.          *)
(***************************************************************************)
GrayAxes ==
    \* an interval that ends within MaxMargin steps of 0 and of 100,
    \* with or without a gap one step above its lower end
    { g \in [lo : 0..MaxMargin, hi : (LMaxTicks - MaxMargin)..LMaxTicks,
              holes : { {} } \cup { {t} : t \in 1..(MaxMargin + 1) }] :
        /\ g.lo < g.hi
        /\ \A t \in g.holes : t = g.lo + 1 /\ t < g.hi }
    \* a single reproducible lightness
    \cup { [lo |-> t, hi |-> t, holes |-> {}] : t \in {0, 1, LMaxTicks} }
    \* no reproducible gray at all
    \cup { [lo |-> 1, hi |-> 0, holes |-> {}] }

Shapes ==
    { [reach |-> r, shape |-> "plain"] : r \in 0..MaxReach }
        \cup { [reach |-> MaxReach, shape |-> "axis"], [reach |-> 1, shape |-> "island"] }

Profiles ==
    { [lo |-> g.lo, hi |-> g.hi, holes |-> g.holes, reach |-> s.reach, shape |-> s.shape] :
        g \in GrayAxes, s \in Shapes }

\* the built-in sRGB profile: the whole gray axis is reproducible
SrgbProfile ==
    [lo |-> 0, hi |-> LMaxTicks, holes |-> {}, reach |-> MaxReach, shape |-> "plain"]

IslandChroma == (MaxReach + 2) * gamutPrecision

\* cmsLCh2Lab: a = C cos h, b = C sin h
cmsLCh2Lab(lch) ==
    [L |-> lch.l, a |-> lch.c * CosDeg(lch.h), b |-> lch.c * SinDeg(lch.h)]

\* cmsDoTransform with the Lab -> RGB (double) transform of the profile
transformLabToRgb(p, lab) ==
    LET R == p.reach * gamutPrecision
        onIsland == /\ p.shape = "island"
                    /\ Abs(lab.a) + Abs(lab.b) = IslandChroma
                    /\ 0 <= lab.L /\ lab.L <= Hundred
        mid == IF 2 * lab.L >= Hundred THEN One ELSE 0
    IN  IF onIsland
        THEN [red |-> mid, green |-> One, blue |-> 0]
        ELSE [red   |-> IF lab.L < p.lo * gamutPrecision THEN -1
                        ELSE IF \E t \in p.holes : lab.L = t * gamutPrecision THEN One + 1
                        ELSE IF lab.a > R THEN One + 1
                        ELSE IF lab.a < -R THEN -1
                        ELSE mid,
              green |-> IF lab.L > p.hi * gamutPrecision THEN One + 1
                        ELSE IF lab.b > R THEN One + 1
                        ELSE IF lab.b < -R THEN -1
                        ELSE mid,
              blue  |-> IF p.shape = "axis" /\ lab.b # 0 THEN -1
                        ELSE IF lab.L > p.hi * gamutPrecision THEN One + 1
                        ELSE mid]

isInRange(low, x, high) == low <= x /\ x <= high

(***************************************************************************)
(* RgbColorSpace: gamut test and conversion                                *)
(***************************************************************************)
isInGamutLab(p, lab) ==
    LET rgb == transformLabToRgb(p, lab)
    IN  /\ isInRange(0, rgb.red, One)
        /\ isInRange(0, rgb.green, One)
        /\ isInRange(0, rgb.blue, One)

isInGamut(p, lch) == isInGamutLab(p, cmsLCh2Lab(lch))

InvalidColor == [valid |-> FALSE, red |-> 0, green |-> 0, blue |-> 0]

\* variant: the blue channel is not tested
toQColorRgbUnboundLab_NoBlue(p, Lab) ==
    LET rgb == transformLabToRgb(p, Lab)
    IN  IF /\ isInRange(0, rgb.red, One)
           /\ isInRange(0, rgb.green, One)
        THEN [valid |-> TRUE, red |-> rgb.red, green |-> rgb.green, blue |-> rgb.blue]
        ELSE InvalidColor

toQColorRgbUnboundLab(p, Lab) ==
    LET rgb == transformLabToRgb(p, Lab)
    IN  IF /\ isInRange(0, rgb.red, One)
           /\ isInRange(0, rgb.green, One)
           /\ isInRange(0, rgb.blue, One)
        THEN [valid |-> TRUE, red |-> rgb.red, green |-> rgb.green, blue |-> rgb.blue]
        ELSE InvalidColor

toQColorRgbUnbound(p, lch) == toQColorRgbUnboundLab(p, cmsLCh2Lab(lch))

(***************************************************************************)
(* RgbColorSpacePrivate::initialize                                        *)
(***************************************************************************)
Gray(l) == [l |-> l, c |-> 0, h |-> 0]

RECURSIVE ScanUp(_, _)
\* while (!isInGamut(candidate) && candidate.l < 100) candidate.l += gamutPrecision
ScanUp(p, l) ==
    IF ~isInGamut(p, Gray(l)) /\ l < Hundred
    THEN ScanUp(p, l + gamutPrecision)
    ELSE l

RECURSIVE ScanDown_WhileInGamut(_, _)
\* variant: the negation of the gamut test is missing
ScanDown_WhileInGamut(p, l) ==
    IF isInGamut(p, Gray(l)) /\ l > 0
    THEN ScanDown_WhileInGamut(p, l - gamutPrecision)
    ELSE l

RECURSIVE ScanDown(_, _)
\* while (!isInGamut(candidate) && candidate.l > 0) candidate.l -= gamutPrecision
ScanDown(p, l) ==
    IF ~isInGamut(p, Gray(l)) /\ l > 0
    THEN ScanDown(p, l - gamutPrecision)
    ELSE l

\* the raster of the nearest-neighbour search, as initialize() sizes it
nearestNeighborImageSize ==
    [width  |-> qRound(nearestNeighborSearchImageHeight * humanMaximumChroma, LMaxTicks) + 1,
     height |-> nearestNeighborSearchImageHeight]

\* built[i] tells whether cmsCreateTransform returned a handle for
\* 1: Lab -> RGB (double), 2: Lab -> RGB (16 bit), 3: RGB -> Lab (double).
\* oldBlack, oldWhite are the members as they were before the call.
initialize(p, built, oldBlack, oldWhite) ==
    IF ~(built[1] /\ built[2] /\ built[3])
    THEN \* deleteTransform on all three, return false
         [ret |-> "false", labToRgb |-> FALSE, labToRgb16 |-> FALSE, rgbToLab |-> FALSE,
          blackpointL |-> oldBlack, whitepointL |-> oldWhite]
    ELSE LET black == ScanUp(p, 0)
             white == ScanDown(p, Hundred)
         IN  [ret |-> IF white <= black THEN "throw" ELSE "true",
              labToRgb |-> TRUE, labToRgb16 |-> TRUE, rgbToLab |-> TRUE,
              blackpointL |-> black, whitepointL |-> white]

(***************************************************************************)
(* RgbColorSpace::nearestInGamutColorByAdjustingChroma                     *)
(***************************************************************************)
RECURSIVE Bisect(_, _, _, _, _)
\* the while loop: lower and upper are lowerChroma.c and upperChroma.c,
\* lightness l and hue h are those of the normalized input
Bisect(p, l, h, lower, upper) ==
    IF upper - lower > gamutPrecision
    THEN LET candidate == (lower + upper) \div 2
         IN  IF isInGamut(p, [l |-> l, c |-> candidate, h |-> h])
             THEN Bisect(p, l, h, candidate, upper)
             ELSE Bisect(p, l, h, lower, candidate)
    ELSE lower

nearestInGamutColorByAdjustingChroma(p, blackpointL, whitepointL, color) ==
    LET temp == PolarPointF(color.c, color.h)
        result == [l |-> color.l, c |-> temp.m_radial, h |-> temp.m_angleDegree]
        lowerChroma == [l |-> result.l, c |-> 0, h |-> result.h]
    IN  IF isInGamut(p, result) THEN result
        ELSE IF isInGamut(p, lowerChroma)
        THEN [l |-> result.l, c |-> Bisect(p, result.l, result.h, 0, result.c), h |-> result.h]
        ELSE IF result.l < blackpointL
        THEN [l |-> blackpointL, c |-> 0, h |-> result.h]
        ELSE IF result.l > whitepointL
        THEN [l |-> blackpointL, c |-> 0, h |-> result.h]
        ELSE result

(***************************************************************************)
(* ChromaLightnessImage.  Only its declaration (chromalightnessimage.h)   *)
(* is available; the rendering follows the description of the raster:      *)
(* row 0 is lightness 100, column 0 is chroma 0, and a pixel is opaque     *)
(* exactly when its colour at the stored hue is in gamut.                  *)
(***************************************************************************)
NullImage == [isNull |-> TRUE, width |-> 0, height |-> 0, opaque |-> {}]

\* the LCh colour that a pixel of the raster stands for
PixelColor(x, y, hue) ==
    [l |-> Hundred - (y * Hundred) \div (nearestNeighborSearchImageHeight - 1),
     c |-> (x * Hundred) \div (nearestNeighborSearchImageHeight - 1),
     h |-> hue]

render(p, hue, size) ==
    IF size.width <= 0 \/ size.height <= 0 THEN NullImage
    ELSE [isNull |-> FALSE, width |-> size.width, height |-> size.height,
          opaque |-> { px \in (0..(size.width - 1)) \X (0..(size.height - 1)) :
                         isInGamut(p, PixelColor(px[1], px[2], hue)) }]

\* variant: setHue stores the hue and keeps the cached image
setHueImage_Keep(image, hue, newHue) == image

\* variant: every call of setHue discards the cached image
setHueImage_Always(image, hue, newHue) == NullImage

\* setHue: a different hue discards the cached image
setHueImage(image, hue, newHue) == IF newHue # hue THEN NullImage ELSE image

\* getImage: render only when nothing is cached
getImage(p, image, hue, size) == IF image.isNull THEN render(p, hue, size) ELSE image

(***************************************************************************)
(* RgbColorSpacePrivate::nearestNeighborSearch                             *)
(***************************************************************************)
\* the width of int, scaled down: the source has 32 bits
IntBits == 8

\* std::numeric_limits<int>::max()
IntMax == 2 ^ (IntBits - 1) - 1

\* the int that two's complement arithmetic leaves when the exact result is v
wrapInt(v) == ((v + 2 ^ (IntBits - 1)) % (2 ^ IntBits)) - 2 ^ (IntBits - 1)

valid(image, pt) ==
    /\ 0 <= pt.x /\ pt.x < image.width
    /\ 0 <= pt.y /\ pt.y < image.height

alphaIs255(image, x, y) == <<x, y>> \in image.opaque

RECURSIVE ScanPixels(_, _, _, _)
\* the two nested for loops; i enumerates the pixels column by column,
\* best is (currentBestX, currentBestY, currentBestDistanceSquare)
ScanPixels(image, originalPoint, i, best) ==
    IF i >= image.width * image.height THEN best
    ELSE LET x == i \div image.height
             y == i % image.height
             x_distance == originalPoint.x - x
             y_distance == originalPoint.y - y
             temp == wrapInt(x_distance * x_distance + y_distance * y_distance)
         IN  IF alphaIs255(image, x, y) /\ temp < best.d
             THEN ScanPixels(image, originalPoint, i + 1, [x |-> x, y |-> y, d |-> temp])
             ELSE ScanPixels(image, originalPoint, i + 1, best)

\* variant: the fallback value is the query point instead of (0, 0)
nearestNeighborSearch_FromQueryPoint(originalPoint, image) ==
    IF valid(image, originalPoint) /\ alphaIs255(image, originalPoint.x, originalPoint.y)
    THEN originalPoint
    ELSE LET best == ScanPixels(image, originalPoint, 0,
                                [x |-> originalPoint.x, y |-> originalPoint.y, d |-> IntMax])
         IN  [x |-> best.x, y |-> best.y]

nearestNeighborSearch(originalPoint, image) ==
    IF valid(image, originalPoint) /\ alphaIs255(image, originalPoint.x, originalPoint.y)
    THEN originalPoint
    ELSE LET best == ScanPixels(image, originalPoint, 0, [x |-> 0, y |-> 0, d |-> IntMax])
         IN  [x |-> best.x, y |-> best.y]

(***************************************************************************)
(* RgbColorSpace::nearestInGamutColorByAdjustingChromaLightness            *)
(* Returns the colour and the state of the raster object after the call.   *)
(***************************************************************************)
\* variant: the lightness of the found pixel is not counted down from 100
nearestInGamutColorByAdjustingChromaLightness_NotInverted(p, image, hue, size, color) ==
    LET temp == IF color.c < 0 THEN [color EXCEPT !.c = 0] ELSE color
        H1 == nearestNeighborSearchImageHeight - 1
        myPixelPosition ==
            [x |-> qRound(temp.c * H1, Hundred),
             y |-> qRound(H1 * Hundred - temp.l * H1, Hundred)]
        image1 == setHueImage(image, hue, temp.h)
        image2 == getImage(p, image1, temp.h, size)
        found == nearestNeighborSearch(myPixelPosition, image2)
    IN  IF isInGamut(p, temp)
        THEN [result |-> temp, image |-> image, hue |-> hue]
        ELSE [result |-> [l |-> (found.y * Hundred) \div H1,
                          c |-> (found.x * Hundred) \div H1,
                          h |-> temp.h],
              image |-> image2, hue |-> temp.h]

nearestInGamutColorByAdjustingChromaLightness(p, image, hue, size, color) ==
    LET temp == IF color.c < 0 THEN [color EXCEPT !.c = 0] ELSE color
        H1 == nearestNeighborSearchImageHeight - 1
        myPixelPosition ==
            [x |-> qRound(temp.c * H1, Hundred),
             y |-> qRound(H1 * Hundred - temp.l * H1, Hundred)]
        image1 == setHueImage(image, hue, temp.h)
        image2 == getImage(p, image1, temp.h, size)
        found == nearestNeighborSearch(myPixelPosition, image2)
    IN  IF isInGamut(p, temp)
        THEN [result |-> temp, image |-> image, hue |-> hue]
        ELSE [result |-> [l |-> Hundred - (found.y * Hundred) \div H1,
                          c |-> (found.x * Hundred) \div H1,
                          h |-> temp.h],
              image |-> image2, hue |-> temp.h]

(***************************************************************************)
(* State                                                                   *)
(***************************************************************************)
VARIABLES
    factory,                     \* the factory that was called
    outcome,                     \* what the factory call gave the caller
    profile,                     \* the RGB profile given to initialize()
    profileHandleOpen,           \* the cmsHPROFILE of the factory is still open
    m_transformLabToRgbHandle,   \* TRUE: a transform handle, FALSE: nullptr
    m_transformLabToRgb16Handle,
    m_transformRgbToLabHandle,
    m_blackpointL,
    m_whitepointL,
    m_hue,                       \* ChromaLightnessImage::m_hue
    m_image,                     \* ChromaLightnessImage::m_image
    m_imageSizePhysical,         \* ChromaLightnessImage::m_imageSizePhysical
    arg,                         \* the colour the caller asks about
    op,                          \* the last query that returned
    resLch,                      \* its result, when an LCh colour
    resColor,                    \* its result, when a QColor
    search,                      \* the locals of a search that is running
    renderCount,                 \* how often an image object computed its image
    returned,                    \* what the last getImage() returned
    lastCall,                    \* the last call made on an image object
    nullReturned,                \* the image objects that have returned a null image
    wheel,                       \* the members of a ColorWheelImage
    polar,                       \* the last PolarPointF that was constructed
    spinBox,                     \* the members of a MultiSpinBox
    colorWheel,                  \* the members of a SimpleColorWheel
    lifetime                     \* the transform handles of an RgbColorSpace and its owners

rgbVars == <<factory, outcome, profile, profileHandleOpen, m_transformLabToRgbHandle,
             m_transformLabToRgb16Handle, m_transformRgbToLabHandle, m_blackpointL,
             m_whitepointL, m_hue, m_image, m_imageSizePhysical, arg, op, resLch, resColor>>

objectVars == <<factory, outcome, profile, profileHandleOpen, m_transformLabToRgbHandle,
                m_transformLabToRgb16Handle, m_transformRgbToLabHandle, m_blackpointL,
                m_whitepointL>>

imageVars == <<m_hue, m_image, m_imageSizePhysical>>

\* the PolarPointF under construction and the two widgets
widgetVars == <<polar, spinBox, colorWheel>>

\* what the caller of an image object observes
callVars == <<renderCount, returned, lastCall, nullReturned>>

\* the state of everything that is not the RgbColorSpace object and its caller
otherVars == <<search, callVars, wheel, widgetVars, lifetime>>

\* what the search routines leave alone
untouchedBySearch == <<rgbVars, callVars, wheel, widgetVars, lifetime>>

\* what the calls on a ChromaLightnessImage leave alone
untouchedByRaster ==
    <<objectVars, arg, op, resLch, resColor, search, wheel, widgetVars, lifetime>>

\* what the calls on a ColorWheelImage leave alone
untouchedByWheel == <<rgbVars, search, widgetVars, lifetime>>

vars == <<rgbVars, otherVars>>

ZeroLch == [l |-> 0, c |-> 0, h |-> 0]

EmptySize == [width |-> 0, height |-> 0]

\* no search is running
NoSearch == [routine |-> "none", pc |-> "idle"]

SearchAtRest == search = NoSearch

\* no call has been made on an image object
NoCall == [object |-> "none", name |-> "none", same |-> FALSE, hadCache |-> FALSE]

CallsAtRest ==
    /\ renderCount = 0
    /\ returned = NullImage
    /\ lastCall = NoCall
    /\ nullReturned = {}

\* a QImage that was default-constructed
NullWheelImage ==
    [isNull |-> TRUE, width |-> 0, height |-> 0, devicePixelRatio |-> 1,
     wheelPainted |-> FALSE, holePainted |-> FALSE]

\* the members of a ColorWheelImage after its construction
WheelConstructed(wheelThickness) ==
    [m_borderPhysical |-> 0, m_devicePixelRatioF |-> 1, m_imageSizePhysical |-> 0,
     m_wheelThicknessPhysical |-> wheelThickness, m_image |-> NullWheelImage]

WheelAtRest == wheel = WheelConstructed(0)

\* no PolarPointF has been constructed from a pair of doubles
NoPolar ==
    [built |-> FALSE, newRadial |-> 0, newAngleDegree |-> 0, m_radial |-> 0,
     m_angleDegree |-> 0]

\* Helper::LchDefaults::defaultHue
defaultHue == 0

\* the members of a SimpleColorWheel after its construction; handler, newHue,
\* hueBefore and hueChanged record what the last handler did; pressed tells
\* whether a mouse press inside the wheel ribbon was delivered and no mouse
\* release since
ColorWheelConstructed ==
    [m_hue |-> defaultHue, m_mouseEventActive |-> FALSE, handler |-> "none",
     newHue |-> 0, hueBefore |-> defaultHue, hueChanged |-> FALSE, pressed |-> FALSE]

\* no RgbColorSpace has been created: no handle exists, nobody owns anything
NoLifetime ==
    [factory |-> "none", ret |-> "none", profile |-> SrgbProfile,
     handle |-> <<FALSE, FALSE, FALSE>>,
     created |-> <<0, 0, 0>>, released |-> <<0, 0, 0>>, owners |-> 0,
     destructorRuns |-> 0, imageOwnsObject |-> FALSE]

LifetimeAtRest == lifetime = NoLifetime

WidgetsAtRest ==
    /\ polar = NoPolar
    /\ spinBox = SpinBoxConstructed
    /\ colorWheel = ColorWheelConstructed

(***************************************************************************)
(* Inputs                                                                  *)
(***************************************************************************)
LightnessInputs ==
    { t * gamutPrecision :
        t \in (-1..(MaxMargin + 1)) \cup ((LMaxTicks - MaxMargin)..(LMaxTicks + 1)) }

ChromaInputs ==
    { t * gamutPrecision : t \in (-MaxChromaInput..MaxChromaInput) \cup {FarChroma} }

HueInputs == {-90, 0, 90, 180, 360}

Colors == [l : LightnessInputs, c : ChromaInputs, h : HueInputs]

\* the outcomes of the three cmsCreateTransform calls: all succeed, or one fails
Builds == { [i \in 1..3 |-> i # failed] : failed \in 0..3 }

\* the file given to createFromFile: unreadable, not a profile, or a profile
Files ==
    { [ioHandler |-> FALSE, profileOpens |-> FALSE, profile |-> SrgbProfile],
      [ioHandler |-> TRUE, profileOpens |-> FALSE, profile |-> SrgbProfile] }
        \cup { [ioHandler |-> TRUE, profileOpens |-> TRUE, profile |-> p] : p \in Profiles }

\* what a member that was never assigned may hold
Indeterminate == {0, Hundred}

Init ==
    /\ factory = "none"
    /\ outcome = "none"
    /\ profile = SrgbProfile
    /\ profileHandleOpen = FALSE
    /\ m_transformLabToRgbHandle = FALSE
    /\ m_transformLabToRgb16Handle = FALSE
    /\ m_transformRgbToLabHandle = FALSE
    /\ m_blackpointL = 0
    /\ m_whitepointL = 0
    /\ m_hue = 0
    /\ m_image = NullImage
    /\ m_imageSizePhysical = EmptySize
    /\ op = "none"
    /\ arg \in Colors
    /\ resLch = ZeroLch
    /\ resColor = InvalidColor
    /\ SearchAtRest
    /\ CallsAtRest /\ LifetimeAtRest
    /\ WidgetsAtRest
    /\ WheelAtRest

(***************************************************************************)
(* Factories                                                               *)
(***************************************************************************)
\* the members of the object after initialize() returned r; the raster
\* object exists only when initialize() ran to its end
ObjectAfter(r) ==
    /\ m_transformLabToRgbHandle' = r.labToRgb
    /\ m_transformLabToRgb16Handle' = r.labToRgb16
    /\ m_transformRgbToLabHandle' = r.rgbToLab
    /\ m_blackpointL' = r.blackpointL
    /\ m_whitepointL' = r.whitepointL
    /\ m_hue' = 0
    /\ m_image' = NullImage
    /\ m_imageSizePhysical' = IF r.ret = "true" THEN nearestNeighborImageSize ELSE EmptySize

\* no object is left: it was never created, or its last owner released it
NoObject ==
    /\ m_transformLabToRgbHandle' = FALSE
    /\ m_transformLabToRgb16Handle' = FALSE
    /\ m_transformRgbToLabHandle' = FALSE
    /\ m_blackpointL' = 0
    /\ m_whitepointL' = 0
    /\ UNCHANGED imageVars

createSrgb ==
    /\ outcome = "none"
    /\ \E built \in Builds, b0 \in Indeterminate, w0 \in Indeterminate :
         LET r == initialize(SrgbProfile, built, b0, w0)
         IN  /\ factory' = "createSrgb"
             /\ profile' = SrgbProfile
             /\ IF r.ret = "throw"
                THEN \* the exception leaves createSrgb before cmsCloseProfile;
                     \* unwinding releases the object
                     /\ outcome' = "exception"
                     /\ profileHandleOpen' = TRUE
                     /\ NoObject
                ELSE \* the return value of initialize() is not looked at
                     /\ outcome' = "object"
                     /\ profileHandleOpen' = FALSE
                     /\ ObjectAfter(r)
    /\ UNCHANGED <<arg, op, resLch, resColor, otherVars>>

createFromFile ==
    /\ outcome = "none"
    /\ factory' = "createFromFile"
    /\ \E file \in Files, built \in Builds :
         IF ~file.ioHandler \/ ~file.profileOpens
         THEN \* return nullptr before any object exists
              /\ outcome' = "nullptr"
              /\ profile' = profile
              /\ profileHandleOpen' = FALSE
              /\ NoObject
         ELSE LET r == initialize(file.profile, built, 0, 0)
              IN  /\ profile' = file.profile
                  /\ CASE r.ret = "true" ->
                            /\ outcome' = "object"
                            /\ profileHandleOpen' = FALSE
                            /\ ObjectAfter(r)
                       [] r.ret = "false" ->
                            /\ outcome' = "nullptr"
                            /\ profileHandleOpen' = FALSE
                            /\ NoObject
                       [] r.ret = "throw" ->
                            /\ outcome' = "exception"
                            /\ profileHandleOpen' = TRUE
                            /\ NoObject
    /\ UNCHANGED <<arg, op, resLch, resColor, otherVars>>

(***************************************************************************)
(* Queries on the object that the caller holds                             *)
(***************************************************************************)
Usable == outcome = "object" /\ m_transformLabToRgbHandle

CallToQColorRgbUnbound ==
    /\ Usable
    /\ op' = "toQColorRgbUnbound"
    /\ resColor' = toQColorRgbUnbound(profile, arg)
    /\ resLch' = ZeroLch
    /\ UNCHANGED <<arg, objectVars, imageVars, otherVars>>

CallNearestByChroma ==
    /\ Usable
    /\ op' = "nearestInGamutColorByAdjustingChroma"
    /\ resLch' = nearestInGamutColorByAdjustingChroma(profile, m_blackpointL,
                                                      m_whitepointL, arg)
    /\ resColor' = InvalidColor
    /\ UNCHANGED <<arg, objectVars, imageVars, otherVars>>

CallNearestByChromaLightness ==
    /\ Usable
    /\ LET r == nearestInGamutColorByAdjustingChromaLightness(
                     profile, m_image, m_hue, m_imageSizePhysical, arg)
       IN  /\ op' = "nearestInGamutColorByAdjustingChromaLightness"
           /\ resLch' = r.result
           /\ m_image' = r.image
           /\ m_hue' = r.hue
    /\ resColor' = InvalidColor
    /\ UNCHANGED <<arg, objectVars, m_imageSizePhysical, otherVars>>

\* any query on an object without transforms hands nullptr to cmsDoTransform
CallOnNullTransform ==
    /\ outcome = "object" /\ ~m_transformLabToRgbHandle
    /\ outcome' = "crashed"
    /\ UNCHANGED <<factory, profile, profileHandleOpen, m_transformLabToRgbHandle,
                   m_transformLabToRgb16Handle, m_transformRgbToLabHandle,
                   m_blackpointL, m_whitepointL, imageVars, op, arg, resLch, resColor,
                   otherVars>>

Next ==
    \/ createSrgb
    \/ createFromFile
    \/ CallToQColorRgbUnbound
    \/ CallNearestByChroma
    \/ CallNearestByChromaLightness
    \/ CallOnNullTransform

Spec == Init /\ [][Next]_vars

(***************************************************************************)
(* Properties                                                              *)
(***************************************************************************)
\* the hue and chroma that polar normalization gives an input colour
NormalHue(color) == (IF color.c < 0 THEN color.h + 180 ELSE color.h) % 360

IsNormalized(color) == color.c >= 0 /\ 0 <= color.h /\ color.h < 360

GrayAt(l, h) == [l |-> l, c |-> 0, h |-> h]

AfterByChroma == op = "nearestInGamutColorByAdjustingChroma"

AfterByChromaLightness == op = "nearestInGamutColorByAdjustingChromaLightness"

AfterUnbound == op = "toQColorRgbUnbound"

\* C1: every colour space object that a factory hands to the caller has
\* whitepointLightness > blackpointLightness.
C1_WhiteAboveBlack ==
    outcome = "object" => m_whitepointL > m_blackpointL

\* C2: no factory returns an object whose transform handles are null: when a
\* transform fails to build, construction fails in createFromFile and in
\* createSrgb alike.
C2_NoObjectWithoutTransforms ==
    outcome = "object" =>
        /\ m_transformLabToRgbHandle
        /\ m_transformLabToRgb16Handle
        /\ m_transformRgbToLabHandle

\* the gray-axis search of initialize() does not find white above black
GraySearchFails(p) == ScanDown(p, Hundred) <= ScanUp(p, 0)

\* C3: when the gray-axis search cannot establish whitepoint > blackpoint,
\* createFromFile returns a null pointer, as for a rejected profile, and the
\* profile handle it opened is closed.
C3_DegenerateGamutReturnsNull ==
    (factory = "createFromFile" /\ outcome # "none" /\ GraySearchFails(profile)) =>
        (outcome = "nullptr" /\ ~profileHandleOpen)

\* C4 as claimed: for an in-gamut input nearestInGamutColorByAdjustingChroma
\* returns exactly the input's lightness, chroma and hue.
C4_IdentityOnInGamut ==
    (AfterByChroma /\ isInGamut(profile, arg)) => resLch = arg

\* C4 as amended: for an in-gamut input the result is the normalized form of
\* the input (same lightness, absolute chroma, hue reduced modulo 360 after
\* a turn by 180 degrees for a negative chroma); it is the input itself when
\* the input is already normalized.
C4_NormalizedIdentityOnInGamut ==
    (AfterByChroma /\ isInGamut(profile, arg)) =>
        /\ resLch.l = arg.l
        /\ resLch.c = Abs(arg.c)
        /\ resLch.h = NormalHue(arg)
        /\ (IsNormalized(arg) => resLch = arg)

C4_Witness ==
    /\ AfterByChroma /\ isInGamut(profile, arg)
    /\ arg.c < 0 /\ resLch.c > 0 /\ resLch.h # arg.h

\* the bisection case: the input is out of gamut and chroma 0 is in gamut at
\* the input lightness
BisectionCase ==
    /\ AfterByChroma
    /\ ~isInGamut(profile, arg)
    /\ isInGamut(profile, GrayAt(arg.l, arg.h))

\* C5 as claimed: for an out-of-gamut input (outside the lightness-clamp case)
\* the result has chroma <= the input chroma and the input's lightness and hue.
C5_ChromaOnlyReduced ==
    BisectionCase =>
        /\ resLch.c <= arg.c
        /\ resLch.l = arg.l
        /\ resLch.h = arg.h

\* C5 as amended: for an out-of-gamut input (outside the lightness-clamp case)
\* the result has chroma <= the absolute input chroma, the input's lightness
\* and the normalized hue of the input.
C5_ChromaOnlyReducedNormalized ==
    BisectionCase =>
        /\ resLch.c <= Abs(arg.c)
        /\ resLch.l = arg.l
        /\ resLch.h = NormalHue(arg)

C5_Witness ==
    /\ BisectionCase
    /\ arg.c < 0
    /\ 0 < resLch.c /\ resLch.c < Abs(arg.c)

\* C6: when chroma 0 is out of gamut at the input lightness, the result has
\* chroma 0 and the blackpoint lightness for an input below the blackpoint,
\* the whitepoint lightness for an input above the whitepoint.
C6_ClampToNearerEnd ==
    (AfterByChroma /\ ~isInGamut(profile, arg)
                   /\ ~isInGamut(profile, GrayAt(arg.l, arg.h))) =>
        /\ (arg.l < m_blackpointL =>
                (resLch.c = 0 /\ resLch.l = m_blackpointL))
        /\ (arg.l > m_whitepointL =>
                (resLch.c = 0 /\ resLch.l = m_whitepointL))

\* C7: nearestInGamutColorByAdjustingChroma always returns a normalized colour
\* that is in gamut.
C7_ResultNormalizedInGamut ==
    AfterByChroma =>
        /\ resLch.c >= 0
        /\ 0 <= resLch.h /\ resLch.h < 360
        /\ isInGamut(profile, resLch)

\* the colour of the fallback pixel (0, 0) for the hue of the input
FallbackColor == [l |-> Hundred, c |-> 0, h |-> arg.h]

\* C8: nearestInGamutColorByAdjustingChromaLightness returns an in-gamut colour
\* or the colour of the fallback pixel (0, 0), never another out-of-gamut one.
C8_InGamutOrFallback ==
    AfterByChromaLightness =>
        (isInGamut(profile, resLch) \/ resLch = FallbackColor)

C8_Witness ==
    /\ AfterByChromaLightness
    /\ arg.c < 0 /\ arg.l > Hundred
    /\ ~isInGamut(profile, [arg EXCEPT !.c = 0])
    /\ isInGamut(profile, resLch)
    /\ resLch.l < Hundred

\* C9: toQColorRgbUnbound returns a valid colour exactly when isInGamut is true
\* for the same colour; a valid result carries the channels of the transform
\* unchanged, and otherwise the result is the invalid colour.
C9_UnboundValidIffInGamut ==
    AfterUnbound =>
        LET rgb == transformLabToRgb(profile, cmsLCh2Lab(arg))
        IN  /\ resColor.valid <=> isInGamut(profile, arg)
            /\ resColor.valid =>
                   (resColor.red = rgb.red /\ resColor.green = rgb.green
                                           /\ resColor.blue = rgb.blue)
            /\ ~resColor.valid => resColor = InvalidColor

C9_Witness ==
    /\ AfterUnbound
    /\ ~resColor.valid
    /\ LET rgb == transformLabToRgb(profile, cmsLCh2Lab(arg))
       IN  /\ isInRange(0, rgb.red, One)
           /\ isInRange(0, rgb.green, One)
           /\ ~isInRange(0, rgb.blue, One)

\* the lightness values of the gray-axis search between black and white point
BetweenBlackAndWhite ==
    { l \in { t * gamutPrecision : t \in 0..LMaxTicks } :
        m_blackpointL <= l /\ l <= m_whitepointL }

\* C10 as claimed: every gray colour with a lightness between blackpoint and
\* whitepoint is in gamut, for any hue.
C10_GrayAxisInGamut ==
    Usable =>
        \A l \in BetweenBlackAndWhite, h \in HueInputs :
            isInGamut(profile, GrayAt(l, h))

\* C10 as amended: the gray colours at the blackpoint lightness and at the
\* whitepoint lightness are in gamut, for any hue.
C10_GrayEndsInGamut ==
    Usable =>
        \A h \in HueInputs :
            /\ isInGamut(profile, GrayAt(m_blackpointL, h))
            /\ isInGamut(profile, GrayAt(m_whitepointL, h))

C10_Witness ==
    /\ Usable
    /\ 0 < m_blackpointL /\ m_whitepointL < Hundred
    /\ \E l \in BetweenBlackAndWhite : ~isInGamut(profile, GrayAt(l, 0))

(***************************************************************************)
(* The searches of RgbColorSpace, one loop iteration per step.             *)
(* "search" holds the locals of the routine that is running and the        *)
(* position of its control: "entry", the name of a loop, or "exit".        *)
(***************************************************************************)
\* the double +infinity as a chroma: above every finite chroma
Infinity == 2 * FarChroma * gamutPrecision

\* (lowerChroma.c + upperChroma.c) / 2 in IEEE arithmetic
halfWay(lower, upper) == IF upper = Infinity THEN Infinity ELSE (lower + upper) \div 2

SearchColors == [l : LightnessInputs, c : ChromaInputs \cup {Infinity}, h : HueInputs]

\* the points that nearestInGamutColorByAdjustingChromaLightness asks about
SearchPoints ==
    [x : -1..nearestNeighborImageSize.width, y : -1..nearestNeighborImageSize.height]

\* the locals of a routine at the moment it is called; "tests" is the
\* parity of the number of loop tests made so far
SearchCalled(routine) ==
    [routine |-> routine, pc |-> "entry", profile |-> SrgbProfile,
     color |-> ZeroLch, candidate |-> ZeroLch,
     lowerChroma |-> ZeroLch, upperChroma |-> ZeroLch, result |-> ZeroLch,
     blackpointL |-> 0, whitepointL |-> 0,
     image |-> NullImage, originalPoint |-> [x |-> 0, y |-> 0],
     x |-> 0, y |-> 0, currentBest |-> [x |-> 0, y |-> 0, d |-> IntMax],
     tests |-> 0]

\* no RgbColorSpace has been asked for
RgbAtRest ==
    /\ factory = "none"
    /\ outcome = "none"
    /\ profile = SrgbProfile
    /\ profileHandleOpen = FALSE
    /\ m_transformLabToRgbHandle = FALSE
    /\ m_transformLabToRgb16Handle = FALSE
    /\ m_transformRgbToLabHandle = FALSE
    /\ m_blackpointL = 0
    /\ m_whitepointL = 0
    /\ m_hue = 0
    /\ m_image = NullImage
    /\ m_imageSizePhysical = EmptySize
    /\ op = "none"
    /\ arg = ZeroLch
    /\ resLch = ZeroLch
    /\ resColor = InvalidColor

InitSearch == RgbAtRest /\ SearchAtRest /\ CallsAtRest /\ LifetimeAtRest /\ WheelAtRest /\ WidgetsAtRest

\* a call of initialize() that built its transforms, lines 209-212
initializeEnter ==
    /\ search.pc = "idle"
    /\ \E p \in Profiles :
         search' = [SearchCalled("initialize") EXCEPT
                        !.profile = p, !.candidate = Gray(0), !.pc = "blackpoint"]
    /\ UNCHANGED untouchedBySearch

\* one test of the while condition of line 213, with the body or the exit
blackpointLoop ==
    /\ search.pc = "blackpoint"
    /\ IF ~isInGamut(search.profile, search.candidate) /\ search.candidate.l < Hundred
       THEN search' = [search EXCEPT !.tests = 1 - @, !.candidate.l = @ + gamutPrecision]
       ELSE search' = [search EXCEPT !.tests = 1 - @, !.blackpointL = search.candidate.l,
                                     !.candidate.l = Hundred,
                                     !.pc = "whitepoint"]
    /\ UNCHANGED untouchedBySearch

\* one test of the while condition of line 218, with the body or the exit
whitepointLoop ==
    /\ search.pc = "whitepoint"
    /\ IF ~isInGamut(search.profile, search.candidate) /\ search.candidate.l > 0
       THEN search' = [search EXCEPT !.tests = 1 - @, !.candidate.l = @ - gamutPrecision]
       ELSE search' = [search EXCEPT !.tests = 1 - @, !.whitepointL = search.candidate.l, !.pc = "exit"]
    /\ UNCHANGED untouchedBySearch

\* a call of nearestInGamutColorByAdjustingChroma, lines 537-554 and 566-578
adjustingChromaEnter ==
    /\ search.pc = "idle"
    /\ \E p \in Profiles, color \in SearchColors :
         LET called == [SearchCalled("nearestInGamutColorByAdjustingChroma") EXCEPT
                            !.profile = p, !.color = color]
             temp == PolarPointF(color.c, color.h)
             result == [l |-> color.l, c |-> temp.m_radial, h |-> temp.m_angleDegree]
             lowerChroma == [l |-> result.l, c |-> 0, h |-> result.h]
         IN  IF isInGamut(p, result)
             THEN search' = [called EXCEPT !.result = result, !.pc = "exit"]
             ELSE IF isInGamut(p, lowerChroma)
             THEN search' = [called EXCEPT !.result = result, !.lowerChroma = lowerChroma,
                                           !.upperChroma = result, !.candidate = result,
                                           !.pc = "bisection"]
             ELSE search' = [called EXCEPT
                                 !.result = nearestInGamutColorByAdjustingChroma(
                                                p, ScanUp(p, 0), ScanDown(p, Hundred), result),
                                 !.pc = "exit"]
    /\ UNCHANGED untouchedBySearch

\* variant: the two assignments of the loop body are exchanged
bisectionLoop_Exchanged ==
    /\ search.pc = "bisection"
    /\ IF search.upperChroma.c - search.lowerChroma.c > gamutPrecision
       THEN LET candidate == [search.candidate EXCEPT
                                  !.c = halfWay(search.lowerChroma.c, search.upperChroma.c)]
            IN  IF isInGamut(search.profile, candidate)
                THEN search' = [search EXCEPT !.tests = 1 - @, !.candidate = candidate,
                                              !.upperChroma = candidate]
                ELSE search' = [search EXCEPT !.tests = 1 - @, !.candidate = candidate,
                                              !.lowerChroma = candidate]
       ELSE search' = [search EXCEPT !.tests = 1 - @, !.result = search.lowerChroma, !.pc = "exit"]
    /\ UNCHANGED untouchedBySearch

\* one test of the while condition of line 555, with the body or the exit
bisectionLoop ==
    /\ search.pc = "bisection"
    /\ IF search.upperChroma.c - search.lowerChroma.c > gamutPrecision
       THEN LET candidate == [search.candidate EXCEPT
                                  !.c = halfWay(search.lowerChroma.c, search.upperChroma.c)]
            IN  IF isInGamut(search.profile, candidate)
                THEN search' = [search EXCEPT !.tests = 1 - @, !.candidate = candidate,
                                              !.lowerChroma = candidate]
                ELSE search' = [search EXCEPT !.tests = 1 - @, !.candidate = candidate,
                                              !.upperChroma = candidate]
       ELSE search' = [search EXCEPT !.tests = 1 - @, !.result = search.lowerChroma, !.pc = "exit"]
    /\ UNCHANGED untouchedBySearch

\* a call of nearestNeighborSearch, lines 639-654
nearestNeighborSearchEnter ==
    /\ search.pc = "idle"
    /\ \E p \in Profiles, size \in {nearestNeighborImageSize, EmptySize},
          pt \in SearchPoints :
         LET called == [SearchCalled("nearestNeighborSearch") EXCEPT
                            !.profile = p, !.image = render(p, 0, size),
                            !.originalPoint = pt]
         IN  IF valid(called.image, pt) /\ alphaIs255(called.image, pt.x, pt.y)
             THEN search' = [called EXCEPT !.currentBest.x = pt.x, !.currentBest.y = pt.y,
                                           !.pc = "exit"]
             ELSE search' = [called EXCEPT !.x = 0, !.y = 0, !.pc = "raster"]
    /\ UNCHANGED untouchedBySearch

\* one test of a for condition of lines 655-656, with the body or the exit
rasterLoop ==
    /\ search.pc = "raster"
    /\ IF search.x >= search.image.width
       THEN search' = [search EXCEPT !.tests = 1 - @, !.pc = "exit"]
       ELSE IF search.y >= search.image.height
       THEN search' = [search EXCEPT !.tests = 1 - @, !.x = @ + 1, !.y = 0]
       ELSE LET x_distance == search.originalPoint.x - search.x
                y_distance == search.originalPoint.y - search.y
                temp == wrapInt(x_distance * x_distance + y_distance * y_distance)
            IN  IF alphaIs255(search.image, search.x, search.y)
                   /\ temp < search.currentBest.d
                THEN search' = [search EXCEPT
                                    !.currentBest = [x |-> search.x, y |-> search.y, d |-> temp],
                                    !.y = @ + 1]
                ELSE search' = [search EXCEPT !.tests = 1 - @, !.y = @ + 1]
    /\ UNCHANGED untouchedBySearch

NextSearch ==
    \/ initializeEnter
    \/ blackpointLoop
    \/ whitepointLoop
    \/ adjustingChromaEnter
    \/ bisectionLoop
    \/ nearestNeighborSearchEnter
    \/ rasterLoop

\* the loop tests of the running routine
SearchLoops == blackpointLoop \/ whitepointLoop \/ bisectionLoop \/ rasterLoop

\* a routine that was called keeps running: a loop test that can be made
\* is made
SpecSearch == InitSearch /\ [][NextSearch]_vars /\ WF_vars(SearchLoops)

\* C11: every search of the engine (the two gray-axis scans of initialize,
\* the chroma bisection, the raster scan of nearestNeighborSearch) reaches
\* its exit, for every input and every gamut.
C11_SearchesTerminate == (search.pc \notin {"idle", "exit"}) ~> (search.pc = "exit")

(***************************************************************************)
(* ChromaLightnessImage used on its own: a caller sets the hue and the     *)
(* size and asks for the image.  renderCount counts how often the object   *)
(* computed the pixels of an image.                                        *)
(***************************************************************************)
MaxRenderings == 3

RasterHues == {0, 90, 180}

\* QSize values a caller can pass: empty, negative, zero in one direction,
\* and the two positive sizes
RasterSizes ==
    { EmptySize, [width |-> -1, height |-> -1], [width |-> 1, height |-> 0],
      [width |-> 1, height |-> 1], nearestNeighborImageSize }

\* variant: the cached image is kept whatever the new size is
setImageSizeImage_Keep(image, size, newSize) == image

\* setImageSize: a different size discards the cached image
setImageSizeImage(image, size, newSize) == IF newSize # size THEN NullImage ELSE image

\* getImage computes the pixels of an image when nothing is cached and the
\* size is not empty
computesImage(image, size) == image.isNull /\ size.width > 0 /\ size.height > 0

\* a ChromaLightnessImage after its construction, with the colour space it
\* was given
RasterConstructed(p) ==
    /\ factory = "none"
    /\ outcome = "object"
    /\ profile = p
    /\ profileHandleOpen = FALSE
    /\ m_transformLabToRgbHandle = TRUE
    /\ m_transformLabToRgb16Handle = TRUE
    /\ m_transformRgbToLabHandle = TRUE
    /\ m_blackpointL = 0
    /\ m_whitepointL = Hundred
    /\ m_hue = 0
    /\ m_image = NullImage
    /\ m_imageSizePhysical = EmptySize
    /\ op = "none"
    /\ arg = ZeroLch
    /\ resLch = ZeroLch
    /\ resColor = InvalidColor

InitRaster ==
    /\ \E p \in Profiles : RasterConstructed(p)
    /\ SearchAtRest
    /\ CallsAtRest /\ LifetimeAtRest
    /\ WidgetsAtRest
    /\ WheelAtRest

RasterSetHue ==
    /\ \E newHue \in RasterHues :
         /\ m_image' = setHueImage(m_image, m_hue, newHue)
         /\ m_hue' = newHue
         /\ lastCall' = [object |-> "ChromaLightnessImage", name |-> "setHue",
                         same |-> newHue = m_hue, hadCache |-> ~m_image.isNull]
    /\ returned' = NullImage
    /\ UNCHANGED nullReturned
    /\ UNCHANGED <<m_imageSizePhysical, renderCount>>
    /\ UNCHANGED untouchedByRaster

RasterSetImageSize ==
    /\ \E newImageSize \in RasterSizes :
         /\ m_image' = setImageSizeImage(m_image, m_imageSizePhysical, newImageSize)
         /\ m_imageSizePhysical' = newImageSize
         /\ lastCall' = [object |-> "ChromaLightnessImage", name |-> "setImageSize",
                         same |-> newImageSize = m_imageSizePhysical,
                         hadCache |-> ~m_image.isNull]
    /\ returned' = NullImage
    /\ UNCHANGED nullReturned
    /\ UNCHANGED <<m_hue, renderCount>>
    /\ UNCHANGED untouchedByRaster

RasterGetImage ==
    /\ renderCount < MaxRenderings
    /\ m_image' = getImage(profile, m_image, m_hue, m_imageSizePhysical)
    /\ renderCount' = IF computesImage(m_image, m_imageSizePhysical)
                      THEN renderCount + 1 ELSE renderCount
    /\ returned' = m_image'
    /\ lastCall' = [object |-> "ChromaLightnessImage", name |-> "getImage",
                    same |-> FALSE, hadCache |-> ~m_image.isNull]
    /\ nullReturned' = IF m_image'.isNull
                       THEN nullReturned \cup {"ChromaLightnessImage"} ELSE nullReturned
    /\ UNCHANGED <<m_hue, m_imageSizePhysical>>
    /\ UNCHANGED untouchedByRaster

NextRaster ==
    \/ RasterSetHue
    \/ RasterSetImageSize
    \/ RasterGetImage

SpecRaster == InitRaster /\ [][NextRaster]_vars

\* C12: setHue with the hue that is already stored keeps the cache and
\* computes nothing, and getImage on a cached image computes nothing: once
\* getImage has rendered, setHue calls with the same hue followed by getImage
\* leave the recompute count as it was.
C12_SameHueKeepsCache ==
    [][ /\ (lastCall'.name = "setHue" /\ lastCall'.same)
            => (m_image' = m_image /\ renderCount' = renderCount)
        /\ (lastCall'.name = "getImage" /\ lastCall'.hadCache)
            => (renderCount' = renderCount /\ returned' = m_image) ]_vars

\* getImage has rendered, and setHue was then called with the stored hue
C12_Witness ==
    /\ lastCall.name = "setHue" /\ lastCall.same /\ lastCall.hadCache
    /\ renderCount > 0
    /\ ~m_image.isNull

\* C13: in ChromaLightnessImage a setter computes no image; with a
\* different value it only empties the cache, with the stored value it keeps
\* the cache; an image is computed only by getImage and only when nothing is
\* cached; getImage on a cached image returns it unchanged.
C13_OnlyGetImageRenders ==
    [][ /\ (lastCall'.name \in {"setHue", "setImageSize"})
            => /\ renderCount' = renderCount
               /\ m_image' = IF lastCall'.same THEN m_image ELSE NullImage
        /\ (renderCount' # renderCount)
            => (lastCall'.name = "getImage" /\ m_image.isNull /\ ~m_image'.isNull)
        /\ (lastCall'.name = "getImage" /\ ~m_image.isNull)
            => (m_image' = m_image /\ returned' = m_image) ]_vars

\* an image was rendered and a setter with another value has discarded it
C13_Witness ==
    /\ lastCall.name = "setImageSize" /\ ~lastCall.same /\ lastCall.hadCache
    /\ renderCount > 0
    /\ m_image.isNull

(***************************************************************************)
(* ColorWheelImage.  Sizes, borders and thicknesses are whole pixels and   *)
(* device pixel ratios are whole numbers; w is the record of the members.  *)
(***************************************************************************)
MaxImageSize == 3

MaxBorder == 2

MaxWheelThickness == 2

MaxDevicePixelRatio == 2

ImageSizeInputs == -1..MaxImageSize

BorderInputs == -1..MaxBorder

WheelThicknessInputs == -1..MaxWheelThickness

DevicePixelRatioInputs == -1..MaxDevicePixelRatio

\* variant: the cache is emptied by every call
setBorder_AlwaysEmpty(w, newBorder) ==
    [w EXCEPT !.m_borderPhysical = IF newBorder >= 0 THEN newBorder ELSE 0,
              !.m_image = NullWheelImage]

setBorder(w, newBorder) ==
    LET tempBorder == IF newBorder >= 0 THEN newBorder ELSE 0
    IN  IF w.m_borderPhysical # tempBorder
        THEN [w EXCEPT !.m_borderPhysical = tempBorder, !.m_image = NullWheelImage]
        ELSE w

setDevicePixelRatioF(w, newDevicePixelRatioF) ==
    LET tempDevicePixelRatioF == IF newDevicePixelRatioF >= 1 THEN newDevicePixelRatioF ELSE 1
    IN  IF w.m_devicePixelRatioF # tempDevicePixelRatioF
        THEN [w EXCEPT !.m_devicePixelRatioF = tempDevicePixelRatioF,
                       !.m_image = NullWheelImage]
        ELSE w

\* variant: a negative size is stored as it is
setImageSize_NoClamp(w, newImageSize) ==
    IF w.m_imageSizePhysical # newImageSize
    THEN [w EXCEPT !.m_imageSizePhysical = newImageSize, !.m_image = NullWheelImage]
    ELSE w

setImageSize(w, newImageSize) ==
    LET tempImageSize == IF newImageSize >= 0 THEN newImageSize ELSE 0
    IN  IF w.m_imageSizePhysical # tempImageSize
        THEN [w EXCEPT !.m_imageSizePhysical = tempImageSize, !.m_image = NullWheelImage]
        ELSE w

setWheelThickness(w, newWheelThickness) ==
    LET temp == IF newWheelThickness >= 0 THEN newWheelThickness ELSE 0
    IN  IF w.m_wheelThicknessPhysical # temp
        THEN [w EXCEPT !.m_wheelThicknessPhysical = temp, !.m_image = NullWheelImage]
        ELSE w

\* variant: an image is allocated also for the size 0
generateNewImage_NoZeroSizeCase(w) ==
    [w EXCEPT !.m_image =
        [isNull |-> FALSE, width |-> w.m_imageSizePhysical,
         height |-> w.m_imageSizePhysical, devicePixelRatio |-> w.m_devicePixelRatioF,
         wheelPainted |-> FALSE, holePainted |-> FALSE]]

\* a QImage(QSize(n, n), format) filled with transparent pixels has the
\* device pixel ratio 1 until setDevicePixelRatio is called
generateNewImage(w) ==
    IF w.m_imageSizePhysical <= 0
    THEN [w EXCEPT !.m_image = NullWheelImage]
    ELSE LET transparent ==
                 [isNull |-> FALSE, width |-> w.m_imageSizePhysical,
                  height |-> w.m_imageSizePhysical, devicePixelRatio |-> 1,
                  wheelPainted |-> FALSE, holePainted |-> FALSE]
             outerCircleDiameter == w.m_imageSizePhysical - 2 * w.m_borderPhysical
             innerCircleDiameter ==
                 w.m_imageSizePhysical
                     - 2 * (w.m_wheelThicknessPhysical + w.m_borderPhysical)
         IN  IF outerCircleDiameter <= 0
             THEN [w EXCEPT !.m_image = transparent]
             ELSE [w EXCEPT !.m_image =
                      [transparent EXCEPT !.wheelPainted = TRUE,
                                          !.holePainted = innerCircleDiameter > 0,
                                          !.devicePixelRatio = w.m_devicePixelRatioF]]

getImageWheel(w) == IF w.m_image.isNull THEN generateNewImage(w) ELSE w

InitWheel ==
    /\ RgbAtRest
    /\ SearchAtRest
    /\ CallsAtRest /\ LifetimeAtRest
    /\ WidgetsAtRest
    /\ \E wheelThickness \in 0..MaxWheelThickness : wheel = WheelConstructed(wheelThickness)

\* the caller's view of a setter call with the argument newValue that
\* turned the members into w
WheelSetterCalled(name, newValue, w) ==
    /\ wheel' = w
    /\ lastCall' = [object |-> "ColorWheelImage", name |-> name,
                    same |-> [w EXCEPT !.m_image = wheel.m_image] = wheel,
                    hadCache |-> ~wheel.m_image.isNull, newValue |-> newValue]
    /\ returned' = NullImage
    /\ UNCHANGED <<renderCount, nullReturned>>
    /\ UNCHANGED untouchedByWheel

WheelSetBorder ==
    \E newBorder \in BorderInputs :
        WheelSetterCalled("setBorder", newBorder, setBorder(wheel, newBorder))

WheelSetDevicePixelRatioF ==
    \E newDevicePixelRatioF \in DevicePixelRatioInputs :
        WheelSetterCalled("setDevicePixelRatioF", newDevicePixelRatioF,
                          setDevicePixelRatioF(wheel, newDevicePixelRatioF))

WheelSetImageSize ==
    \E newImageSize \in ImageSizeInputs :
        WheelSetterCalled("setImageSize", newImageSize, setImageSize(wheel, newImageSize))

WheelSetWheelThickness ==
    \E newWheelThickness \in WheelThicknessInputs :
        WheelSetterCalled("setWheelThickness", newWheelThickness,
                          setWheelThickness(wheel, newWheelThickness))

\* renderCount counts the calls of generateNewImage
WheelGetImage ==
    /\ renderCount < MaxRenderings
    /\ wheel' = getImageWheel(wheel)
    /\ renderCount' = IF wheel.m_image.isNull THEN renderCount + 1 ELSE renderCount
    /\ returned' = wheel'.m_image
    /\ lastCall' = [object |-> "ColorWheelImage", name |-> "getImage",
                    same |-> FALSE, hadCache |-> ~wheel.m_image.isNull]
    /\ nullReturned' = IF wheel'.m_image.isNull
                       THEN nullReturned \cup {"ColorWheelImage"} ELSE nullReturned
    /\ UNCHANGED untouchedByWheel

NextWheel ==
    \/ WheelSetBorder
    \/ WheelSetDevicePixelRatioF
    \/ WheelSetImageSize
    \/ WheelSetWheelThickness
    \/ WheelGetImage

SpecWheel == InitWheel /\ [][NextWheel]_vars

(***************************************************************************)
(* A ChromaLightnessImage and a ColorWheelImage whose sizes are set and    *)
(* whose images are asked for.                                             *)
(***************************************************************************)
InitImageSizes ==
    /\ RasterConstructed(SrgbProfile)
    /\ SearchAtRest
    /\ CallsAtRest /\ LifetimeAtRest
    /\ WidgetsAtRest
    /\ \E wheelThickness \in 0..MaxWheelThickness : wheel = WheelConstructed(wheelThickness)

NextImageSizes ==
    \/ RasterSetImageSize
    \/ RasterGetImage
    \/ WheelSetImageSize
    \/ WheelGetImage

SpecImageSizes == InitImageSizes /\ [][NextImageSizes]_vars

\* C14: getImage returns a null image exactly when the stored size has a
\* dimension that is zero or negative, for the raster and for the wheel
\* image; so an object that returned a null image returns a rendered image
\* once a positive size is set.
C14_NullImageIffEmptySize ==
    /\ (lastCall.object = "ChromaLightnessImage" /\ lastCall.name = "getImage")
        => (returned.isNull
              <=> (m_imageSizePhysical.width <= 0 \/ m_imageSizePhysical.height <= 0))
    /\ (lastCall.object = "ColorWheelImage" /\ lastCall.name = "getImage")
        => (returned.isNull <=> wheel.m_imageSizePhysical <= 0)

\* both objects have returned a null image, and the wheel image returns a
\* rendered image afterwards
C14_Witness ==
    /\ nullReturned = {"ChromaLightnessImage", "ColorWheelImage"}
    /\ lastCall.object = "ColorWheelImage" /\ lastCall.name = "getImage"
    /\ ~returned.isNull
    /\ ~m_image.isNull

(***************************************************************************)
(* Properties of ColorWheelImage                                           *)
(***************************************************************************)
WheelSetters == {"setBorder", "setDevicePixelRatioF", "setImageSize", "setWheelThickness"}

AfterWheelGetImage == lastCall.object = "ColorWheelImage" /\ lastCall.name = "getImage"

\* C15: a setter of ColorWheelImage never calls generateNewImage; it empties
\* the cache exactly when the clamped new value differs from the stored one
\* and leaves the cache alone otherwise; the cache is filled only by getImage.
C15_SettersOnlyEmptyCache ==
    [][ /\ (lastCall'.name \in WheelSetters)
            => /\ renderCount' = renderCount
               /\ wheel'.m_image = IF lastCall'.same THEN wheel.m_image ELSE NullWheelImage
        /\ (renderCount' # renderCount \/ (wheel.m_image.isNull /\ ~wheel'.m_image.isNull))
            => lastCall'.name = "getImage" ]_vars

\* the image was rendered and setBorder was called with the stored border
C15_Witness ==
    /\ lastCall.name = "setBorder" /\ lastCall.same /\ lastCall.hadCache
    /\ wheel.m_borderPhysical > 0
    /\ ~wheel.m_image.isNull

\* C16: with a positive image size, the image that getImage returns has the
\* configured device pixel ratio (never below 1), whatever the border is.
C16_ImageCarriesDevicePixelRatio ==
    /\ wheel.m_devicePixelRatioF >= 1
    /\ (AfterWheelGetImage /\ wheel.m_imageSizePhysical > 0)
        => returned.devicePixelRatio = wheel.m_devicePixelRatioF

\* C17: the stored size is 0 at first and afterwards the last argument of
\* setImageSize clamped to >= 0; getImage returns a square image of that
\* size, which is not null when the size is positive, for every border and
\* wheel thickness.
C17_SquareImageOfLastSize ==
    /\ wheel.m_imageSizePhysical = 0
    /\ [][ /\ (lastCall'.name = "setImageSize")
               => wheel'.m_imageSizePhysical =
                      IF lastCall'.newValue >= 0 THEN lastCall'.newValue ELSE 0
           /\ (lastCall'.name # "setImageSize")
               => wheel'.m_imageSizePhysical = wheel.m_imageSizePhysical
           /\ (lastCall'.name = "getImage")
               => /\ returned'.width = wheel.m_imageSizePhysical
                  /\ returned'.height = wheel.m_imageSizePhysical
                  /\ wheel.m_imageSizePhysical > 0 => ~returned'.isNull ]_vars

\* getImage returned an image although border and wheel thickness are
\* larger than the image
C17_Witness ==
    /\ AfterWheelGetImage
    /\ wheel.m_imageSizePhysical > 0
    /\ wheel.m_borderPhysical > wheel.m_imageSizePhysical
    /\ wheel.m_wheelThicknessPhysical > wheel.m_imageSizePhysical
    /\ ~returned.isNull
    /\ returned.width = wheel.m_imageSizePhysical

(***************************************************************************)
(* PolarPointF on doubles: the constructor from a (radial, angle) pair is  *)
(* called with any pair of doubles.                                        *)
(***************************************************************************)
MaxRadial == 3

MaxTurns == 2

RadialInputs == { r \in -MaxRadial..MaxRadial : isDouble(r) }

AngleInputs == { a \in (-MaxTurns * FullTurn)..(MaxTurns * FullTurn) : isDouble(a) }

\* what the constructor of a PolarPointF leaves alone
untouchedByPolar == <<rgbVars, search, callVars, wheel, spinBox, colorWheel, lifetime>>

InitPolar == RgbAtRest /\ SearchAtRest /\ CallsAtRest /\ LifetimeAtRest /\ WheelAtRest /\ WidgetsAtRest

\* a PolarPointF has no setters: it is constructed once
PolarConstruct ==
    \E newRadial \in RadialInputs, newAngleDegree \in AngleInputs :
        /\ ~polar.built
        /\ polar' = [built |-> TRUE, newRadial |-> newRadial,
                     newAngleDegree |-> newAngleDegree] @@
                    PolarPointFDouble(newRadial, newAngleDegree)
        /\ UNCHANGED untouchedByPolar

NextPolar == PolarConstruct

SpecPolar == InitPolar /\ [][NextPolar]_vars

\* C18: every PolarPointF built from a (radial, angle) pair has radial() >= 0
\* and 0 <= angleDegree() < 360; a negative radial r with angle a gives
\* radial -r and the angle (a + 180) mod 360, a non-negative radial is kept
\* with the angle a mod 360.  The angle is compared with the exact remainder
\* up to the rounding of the double arithmetic: one step of the format at
\* the magnitude of 360, measured around the circle.
C18_PolarPointFNormalized ==
    polar.built =>
        LET turned == IF polar.newRadial < 0 THEN polar.newAngleDegree + 180 * Degree
                      ELSE polar.newAngleDegree
            remainder == turned % FullTurn
        IN  /\ polar.m_radial >= 0
            /\ polar.m_radial = magnitude(polar.newRadial)
            /\ 0 <= polar.m_angleDegree
            /\ polar.m_angleDegree < FullTurn
            /\ \/ magnitude(polar.m_angleDegree - remainder) <= ulp(FullTurn)
               \/ FullTurn - magnitude(polar.m_angleDegree - remainder) <= ulp(FullTurn)

(***************************************************************************)
(* MultiSpinBox: the public setSections(), the steps and the Tab moves of  *)
(* the user, and the edits of the text in the line edit.                   *)
(***************************************************************************)
MaxSections == 2

MaxSpinBoxCalls == 3

\* sections for setSections(): a wrapping one whose value lies below the
\* minimum, a wrapping one whose maximum lies below the minimum, a
\* clamping one whose value lies below the minimum, and a clamping one
\* without decimals whose value is no whole number
SectionInputs ==
    {[minimum |-> -130, maximum |-> 385, value |-> -131, isWrapping |-> TRUE,
      decimals |-> 2],
     [minimum |-> -130, maximum |-> -131, value |-> 9, isWrapping |-> TRUE,
      decimals |-> 2],
     [minimum |-> -130, maximum |-> 385, value |-> -131, isWrapping |-> FALSE,
      decimals |-> 2],
     [minimum |-> -130, maximum |-> 385, value |-> 9, isWrapping |-> FALSE,
      decimals |-> 0]}

SectionListInputs ==
    UNION { [1..n -> SectionInputs] : n \in 0..MaxSections }

StepInputs == {-1, 1}

\* Qt::FocusReason; the reasons that the handlers treat like OtherFocusReason
\* are left out
FocusReasons ==
    {"TabFocusReason", "BacktabFocusReason", "ShortcutFocusReason", "MouseFocusReason",
     "OtherFocusReason"}

\* what the user can type in the place of the current section's value
TypedInputs == { Numeral(n) : n \in {-131, 9, 386} } \cup {NotANumber}

\* what the handlers of a MultiSpinBox leave alone
untouchedBySpinBox == <<rgbVars, search, callVars, wheel, polar, colorWheel, lifetime>>

InitSpinBox == RgbAtRest /\ SearchAtRest /\ CallsAtRest /\ LifetimeAtRest /\ WheelAtRest /\ WidgetsAtRest

\* a handler can run: the process is alive, and the behaviour is not longer
\* than MaxSpinBoxCalls calls
SpinBoxReady == ~spinBox.aborted /\ spinBox.calls < MaxSpinBoxCalls

\* handler(argument) has left the members sb
SpinBoxCalled(sb, handler, argument) ==
    /\ spinBox' = [sb EXCEPT !.calls = spinBox.calls + 1, !.handler = handler,
                             !.argument = argument,
                             !.result = IF handler = "focusNextPrevChild"
                                        THEN sb.result ELSE "none"]
    /\ UNCHANGED untouchedBySpinBox

\* setSections() while the current index is an index of the new list too
SpinBoxSetSections ==
    \E newSections \in SectionListInputs :
        /\ SpinBoxReady
        /\ Len(newSections) < 1 \/ spinBox.m_currentIndex < Len(newSections)
        /\ SpinBoxCalled(setSections(spinBox, newSections), "setSections",
                         IF Len(newSections) < 1 THEN "empty list" ELSE "sections")

\* setSections() with fewer sections than the current index needs:
\* updatePrefixValueSuffixText() reads m_sections.at(m_currentIndex) beyond
\* the end of the list.  QList::at() stops the process in a build with
\* assertions; without them the read is undefined, and the run may go on
\* to setCurrentIndexAndUpdateTextAndSelectValue(0) with the appended
\* sections.
SpinBoxSetSectionsBeyondEnd ==
    \E newSections \in SectionListInputs, asserts \in BOOLEAN :
        /\ SpinBoxReady
        /\ Len(newSections) >= 1
        /\ spinBox.m_currentIndex >= Len(newSections)
        /\ LET appended == [spinBox EXCEPT !.m_sections = appendedSections(newSections),
                                           !.readBeyondEnd = TRUE]
           IN  SpinBoxCalled(
                   IF asserts
                   THEN [appended EXCEPT !.aborted = TRUE]
                   ELSE setCurrentIndexAndUpdateTextAndSelectValue(appended, 0),
                   "setSections", "sections")

SpinBoxStepBy ==
    \E steps \in StepInputs :
        /\ SpinBoxReady
        /\ SpinBoxCalled(stepBy(spinBox, steps), "stepBy",
                         IF steps < 0 THEN "down" ELSE "up")

SpinBoxFocusNextPrevChild ==
    \E next \in BOOLEAN :
        /\ SpinBoxReady
        /\ SpinBoxCalled(focusNextPrevChild(spinBox, next), "focusNextPrevChild",
                         IF next THEN "true" ELSE "false")

\* QAbstractSpinBox::focusInEvent runs first and leaves the members alone
SpinBoxFocusInEvent ==
    \E reason \in FocusReasons :
        /\ SpinBoxReady
        /\ SpinBoxCalled(focusInEvent(spinBox, reason), "focusInEvent", reason)

\* QAbstractSpinBox::focusOutEvent runs first; when it emits
\* editingFinished, the connected slot runs
SpinBoxFocusOutEvent ==
    \E reason \in FocusReasons, editingFinished \in BOOLEAN :
        /\ SpinBoxReady
        /\ SpinBoxCalled(
               focusOutEvent(IF editingFinished
                             THEN setCurrentIndexToZeroAndUpdateTextAndSelectValue(spinBox)
                             ELSE spinBox, reason),
               "focusOutEvent", reason)

\* the user moves the cursor: cursorPositionChanged is emitted
SpinBoxCursorPositionChanged ==
    \E newPos \in 0..Len(spinBox.lineEdit) :
        /\ SpinBoxReady
        /\ SpinBoxCalled(reactOnCursorPositionChange(spinBox, newPos),
                         "reactOnCursorPositionChange", "newPos")

\* the user edits the text: textChanged is emitted with the new text, which
\* has something typed in the place of the current value, or is empty
SpinBoxTextEdited ==
    \E typed \in TypedInputs, emptied \in BOOLEAN :
        LET text == IF emptied THEN <<>>
                    ELSE spinBox.m_textBeforeCurrentValue \o <<typed>>
                             \o spinBox.m_textAfterCurrentValue
        IN  /\ SpinBoxReady
            /\ text # spinBox.lineEdit
            /\ SpinBoxCalled(setTextWithSignal(spinBox, text), "textChanged", "text")

NextSpinBox ==
    \/ SpinBoxSetSections
    \/ SpinBoxSetSectionsBeyondEnd
    \/ SpinBoxStepBy
    \/ SpinBoxFocusNextPrevChild
    \/ SpinBoxFocusInEvent
    \/ SpinBoxFocusOutEvent
    \/ SpinBoxCursorPositionChanged
    \/ SpinBoxTextEdited

SpecSpinBox == InitSpinBox /\ [][NextSpinBox]_vars

\* C19: after any sequence of setSections, stepBy and text updates every
\* stored section has minimum <= maximum and minimum <= value <= maximum
\* (a value out of the range is clamped, or wrapped for a wrapping section,
\* and is the minimum when the width of the range is not positive).
C19_SectionsAreValid ==
    \A i \in 1..Len(spinBox.m_sections) :
        LET section == spinBox.m_sections[i]
        IN  /\ section.minimum <= section.maximum
            /\ section.minimum <= section.value
            /\ section.value <= section.maximum
            /\ section.maximum <= section.minimum => section.value = section.minimum

(***************************************************************************)
(* SimpleColorWheel: the hue property and the events that set it.  A       *)
(* mouse event is described by the polar coordinates of its position       *)
(* (whether it lies in the ribbon or within the wheel, and its angle); the *)
(* angle comes from PolarPointF(QPointF) and lies in 0..360, 360 included. *)
(***************************************************************************)
setHue(cw, newHue) ==
    LET temp == normalizedAngleDegreeDouble(newHue)
    IN  IF cw.m_hue # temp
        THEN [cw EXCEPT !.m_hue = temp, !.hueChanged = TRUE]
        ELSE cw

\* the handler name starts; no signal has been emitted yet
handlerEntered(cw, name) ==
    [cw EXCEPT !.handler = name, !.newHue = cw.m_hue, !.hueBefore = cw.m_hue,
               !.hueChanged = FALSE]

\* name calls setHue(newHue)
setHueBy(cw, name, newHue) ==
    setHue([handlerEntered(cw, name) EXCEPT !.newHue = newHue], newHue)

resetHue(cw) == setHueBy(cw, "resetHue", defaultHue)

wheelStep == 5 * Degree

bigWheelStep == 15 * Degree

keyPressEvent(cw, key) ==
    CASE key = "Key_Plus" -> setHueBy(cw, "keyPressEvent", roundToDouble(cw.m_hue + wheelStep))
      [] key = "Key_Minus" -> setHueBy(cw, "keyPressEvent", roundToDouble(cw.m_hue - wheelStep))
      [] key = "Key_Insert" ->
             setHueBy(cw, "keyPressEvent", roundToDouble(cw.m_hue + bigWheelStep))
      [] key = "Key_Delete" ->
             setHueBy(cw, "keyPressEvent", roundToDouble(cw.m_hue - bigWheelStep))
      [] OTHER -> handlerEntered(cw, "keyPressEvent")

\* variant: the wheel is not ignored while the mouse is tracked
wheelEvent_WhileTracked(cw, withinRadius, steps) ==
    IF withinRadius /\ steps # 0
    THEN setHueBy(cw, "wheelEvent", roundToDouble(cw.m_hue + steps * wheelStep))
    ELSE handlerEntered(cw, "wheelEvent")

\* standardWheelSteps(event) is steps; angleDelta().y() is 0 exactly when
\* steps is 0
wheelEvent(cw, withinRadius, steps) ==
    IF ~cw.m_mouseEventActive /\ withinRadius /\ steps # 0
    THEN setHueBy(cw, "wheelEvent", roundToDouble(cw.m_hue + steps * wheelStep))
    ELSE handlerEntered(cw, "wheelEvent")

mousePressEvent(cw, inRibbon, angleDegree) ==
    IF inRibbon
    THEN setHueBy([cw EXCEPT !.m_mouseEventActive = TRUE], "mousePressEvent", angleDegree)
    ELSE handlerEntered(cw, "mousePressEvent")

mouseMoveEvent(cw, angleDegree) ==
    IF cw.m_mouseEventActive
    THEN setHueBy(cw, "mouseMoveEvent", angleDegree)
    ELSE handlerEntered(cw, "mouseMoveEvent")

mouseReleaseEvent(cw, angleDegree) ==
    IF cw.m_mouseEventActive
    THEN setHueBy([cw EXCEPT !.m_mouseEventActive = FALSE], "mouseReleaseEvent",
                  angleDegree)
    ELSE handlerEntered(cw, "mouseReleaseEvent")

\* the arguments of the public setHue(): whole and quarter degrees around
\* the ends of the range, and full turns
HueDoubleInputs ==
    { -2 * FullTurn, -FullTurn, -90 * Degree, -Degree, -2, -1, 0, 1, Degree,
      90 * Degree, 359 * Degree, FullTurn, FullTurn + Degree, 2 * FullTurn }

MouseAngleInputs == { a * Degree : a \in {0, 90, 180, 270, 360} }

KeyInputs == {"Key_Plus", "Key_Minus", "Key_Insert", "Key_Delete", "Key_A"}

WheelStepInputs == {-1, 0, 1}

\* what the handlers of a SimpleColorWheel leave alone
untouchedByColorWheel == <<rgbVars, search, callVars, wheel, polar, spinBox, lifetime>>

InitColorWheel == RgbAtRest /\ SearchAtRest /\ CallsAtRest /\ LifetimeAtRest /\ WheelAtRest /\ WidgetsAtRest

ColorWheelSetHue ==
    \E newHue \in HueDoubleInputs :
        /\ colorWheel' = setHueBy(colorWheel, "setHue", newHue)
        /\ UNCHANGED untouchedByColorWheel

ColorWheelResetHue ==
    /\ colorWheel' = resetHue(colorWheel)
    /\ UNCHANGED untouchedByColorWheel

ColorWheelKeyPressEvent ==
    \E key \in KeyInputs :
        /\ colorWheel' = keyPressEvent(colorWheel, key)
        /\ UNCHANGED untouchedByColorWheel

ColorWheelWheelEvent ==
    \E withinRadius \in BOOLEAN, steps \in WheelStepInputs :
        /\ colorWheel' = wheelEvent(colorWheel, withinRadius, steps)
        /\ UNCHANGED untouchedByColorWheel

ColorWheelMousePressEvent ==
    \E inRibbon \in BOOLEAN, angleDegree \in MouseAngleInputs :
        /\ colorWheel' = [mousePressEvent(colorWheel, inRibbon, angleDegree) EXCEPT
                              !.pressed = @ \/ inRibbon]
        /\ UNCHANGED untouchedByColorWheel

ColorWheelMouseMoveEvent ==
    \E angleDegree \in MouseAngleInputs :
        /\ colorWheel' = mouseMoveEvent(colorWheel, angleDegree)
        /\ UNCHANGED untouchedByColorWheel

ColorWheelMouseReleaseEvent ==
    \E angleDegree \in MouseAngleInputs :
        /\ colorWheel' = [mouseReleaseEvent(colorWheel, angleDegree) EXCEPT
                              !.pressed = FALSE]
        /\ UNCHANGED untouchedByColorWheel

NextColorWheel ==
    \/ ColorWheelSetHue
    \/ ColorWheelResetHue
    \/ ColorWheelKeyPressEvent
    \/ ColorWheelWheelEvent
    \/ ColorWheelMousePressEvent
    \/ ColorWheelMouseMoveEvent
    \/ ColorWheelMouseReleaseEvent

SpecColorWheel == InitColorWheel /\ [][NextColorWheel]_vars

\* C20: after any sequence of setHue, resetHue, key, wheel and mouse events
\* the stored hue is in [0, 360); hueChanged was emitted by the last handler
\* exactly when it changed the stored hue; and setHue with a value equal to
\* the current hue modulo 360 changed nothing and emitted nothing.
C20_HueInRangeAndSignalled ==
    /\ 0 <= colorWheel.m_hue
    /\ colorWheel.m_hue < FullTurn
    /\ colorWheel.hueChanged <=> (colorWheel.m_hue # colorWheel.hueBefore)
    /\ (/\ colorWheel.handler = "setHue"
        /\ colorWheel.newHue % FullTurn = colorWheel.hueBefore % FullTurn)
           => (colorWheel.m_hue = colorWheel.hueBefore /\ ~colorWheel.hueChanged)

(***************************************************************************)
(* The life of an RgbColorSpace and of its three transform handles.        *)
(* lifetime.handle[i] is the member (TRUE: a transform, FALSE: nullptr),   *)
(* created[i] and released[i] count cmsCreateTransform results that were   *)
(* handles and cmsDeleteTransform calls, for                               *)
(* 1: Lab -> RGB (double), 2: Lab -> RGB (16 bit), 3: RGB -> Lab (double). *)
(* owners counts the QSharedPointers that callers hold.  The raster object *)
(* that a successful initialize() creates holds a shared pointer of its    *)
(* own to the colour space; nothing in rgbcolorspace.cpp deletes the       *)
(* raster object, so that this pointer is never given up.  An exception    *)
(* that leaves a factory is taken to be caught by a caller, so that the    *)
(* stack is unwound.                                                       *)
(***************************************************************************)
\* the largest number of shared pointers that callers hold at a time
MaxOwners == 2

\* variant: the handle is released but the member keeps its value
deleteTransform_KeepHandle(transformHandle, released) ==
    [handle |-> transformHandle,
     released |-> IF transformHandle THEN released + 1 ELSE released]

\* deleteTransform: release a handle that is not nullptr, set it to nullptr
deleteTransform(transformHandle, released) ==
    [handle |-> FALSE,
     released |-> IF transformHandle THEN released + 1 ELSE released]

\* deleteTransform on each of the three members
deleteTransforms(lt) ==
    LET d == [i \in 1..3 |-> deleteTransform(lt.handle[i], lt.released[i])]
    IN  [lt EXCEPT !.handle = [i \in 1..3 |-> d[i].handle],
                   !.released = [i \in 1..3 |-> d[i].released]]

\* ~RgbColorSpace
destructor(lt) == [deleteTransforms(lt) EXCEPT !.destructorRuns = @ + 1]

\* initialize() as far as the handles and the raster object are concerned
initializeLifetime(lt, p, built) ==
    LET ret == initialize(p, built, 0, 0).ret
        made == [lt EXCEPT !.ret = ret, !.profile = p, !.handle = built,
                           !.created = [i \in 1..3 |-> IF built[i] THEN 1 ELSE 0]]
    IN  CASE ret = "false" -> deleteTransforms(made)
          [] ret = "throw" -> made
          [] ret = "true"  -> [made EXCEPT !.imageOwnsObject = TRUE]

\* the QSharedPointer "result" of a factory goes out of scope
resultOutOfScope(lt) == destructor([lt EXCEPT !.owners = 0])

\* the factory hands its QSharedPointer to the caller
resultReturned(lt) == [lt EXCEPT !.owners = 1]

untouchedByLifetime == <<rgbVars, search, callVars, wheel, widgetVars>>

InitLifetime ==
    RgbAtRest /\ SearchAtRest /\ CallsAtRest /\ LifetimeAtRest /\ WheelAtRest /\ WidgetsAtRest

LifetimeCreateSrgb ==
    /\ lifetime.factory = "none"
    /\ \E built \in Builds :
         LET lt == initializeLifetime([lifetime EXCEPT !.factory = "createSrgb"],
                                      SrgbProfile, built)
         IN  lifetime' = IF lt.ret = "throw" THEN resultOutOfScope(lt)
                         ELSE resultReturned(lt)
    /\ UNCHANGED untouchedByLifetime

LifetimeCreateFromFile ==
    /\ lifetime.factory = "none"
    /\ \E file \in Files, built \in Builds :
         IF ~file.ioHandler \/ ~file.profileOpens
         THEN lifetime' = [lifetime EXCEPT !.factory = "createFromFile"]
         ELSE LET lt == initializeLifetime([lifetime EXCEPT !.factory = "createFromFile"],
                                           file.profile, built)
              IN  lifetime' = IF lt.ret = "true" THEN resultReturned(lt)
                              ELSE resultOutOfScope(lt)
    /\ UNCHANGED untouchedByLifetime

\* a caller copies its shared pointer
LifetimeCopy ==
    /\ lifetime.owners \in 1..(MaxOwners - 1)
    /\ lifetime' = [lifetime EXCEPT !.owners = @ + 1]
    /\ UNCHANGED untouchedByLifetime

\* a caller gives up a shared pointer; the last one destroys the object
LifetimeDrop ==
    /\ lifetime.owners >= 1
    /\ lifetime' = IF lifetime.owners = 1 THEN resultOutOfScope(lifetime)
                   ELSE [lifetime EXCEPT !.owners = @ - 1]
    /\ UNCHANGED untouchedByLifetime

NextLifetime ==
    \/ LifetimeCreateSrgb
    \/ LifetimeCreateFromFile
    \/ LifetimeCopy
    \/ LifetimeDrop

SpecLifetime == InitLifetime /\ [][NextLifetime]_vars

\* C21: every transform handle that was created is released exactly once
\* over the life of the object and never twice: a member is a handle exactly
\* while its transform exists unreleased; after a failed initialize() all
\* created handles are released and the members are nullptr, and the
\* destructor that follows releases nothing again; after a successful
\* initialize() nothing is released while an owner is left, and the
\* destructor, which runs once, releases all three.
C21_HandlesReleasedOnce ==
    /\ lifetime.destructorRuns <= 1
    /\ (lifetime.ret # "none" /\ lifetime.owners = 0) => lifetime.destructorRuns = 1
    /\ \A i \in 1..3 :
         /\ lifetime.released[i] <= lifetime.created[i]
         /\ lifetime.handle[i] <=> (lifetime.created[i] = 1 /\ lifetime.released[i] = 0)
         /\ lifetime.ret = "false" =>
               ~lifetime.handle[i] /\ lifetime.released[i] = lifetime.created[i]
         /\ lifetime.destructorRuns = 1 => lifetime.released[i] = lifetime.created[i]
         /\ lifetime.ret = "true" =>
               /\ lifetime.created[i] = 1
               /\ lifetime.released[i] = lifetime.destructorRuns
               /\ lifetime.owners >= 1 <=> lifetime.destructorRuns = 0

\* an object whose initialize() failed after creating two handles was
\* returned by createSrgb and has been destroyed
C21_Witness ==
    /\ lifetime.factory = "createSrgb"
    /\ lifetime.ret = "false"
    /\ lifetime.destructorRuns = 1
    /\ \E i \in 1..3 : lifetime.created[i] = 1 /\ lifetime.released[i] = 1

(***************************************************************************)
(* Sequences of queries, with changing arguments, on one RgbColorSpace     *)
(* whose initialize() ran to its end.  lastCall records the setHue call    *)
(* that a query made on the raster object and returned the raster that     *)
(* getImage gave to the search.                                            *)
(***************************************************************************)
AllBuilt == [i \in 1..3 |-> TRUE]

\* the profiles for which initialize() returns true
HistoryProfiles == { p \in Profiles : initialize(p, AllBuilt, 0, 0).ret = "true" }

\* the colours asked about: two hues, the darkest, a middle and the lightest
\* lightness, a chroma within the largest gamut and one outside every gamut
HistoryColors ==
    { x \in Colors : /\ x.h \in {0, 90}
                     /\ x.l \in {0, (LMaxTicks \div 2) * gamutPrecision, Hundred}
                     /\ x.c \in {MaxChromaInput * gamutPrecision,
                                 FarChroma * gamutPrecision} }

InitHistory ==
    /\ \E p \in HistoryProfiles :
         /\ profile = p
         /\ m_blackpointL = initialize(p, AllBuilt, 0, 0).blackpointL
         /\ m_whitepointL = initialize(p, AllBuilt, 0, 0).whitepointL
    /\ factory = "createFromFile"
    /\ outcome = "object"
    /\ profileHandleOpen = FALSE
    /\ m_transformLabToRgbHandle = TRUE
    /\ m_transformLabToRgb16Handle = TRUE
    /\ m_transformRgbToLabHandle = TRUE
    /\ m_hue = 0
    /\ m_image = NullImage
    /\ m_imageSizePhysical = nearestNeighborImageSize
    /\ op = "none"
    /\ arg = ZeroLch
    /\ resLch = ZeroLch
    /\ resColor = InvalidColor
    /\ SearchAtRest /\ CallsAtRest /\ LifetimeAtRest /\ WheelAtRest /\ WidgetsAtRest

untouchedByHistory == <<search, wheel, widgetVars, lifetime, renderCount, nullReturned>>

HistoryToQColorRgbUnbound ==
    /\ \E x \in HistoryColors :
         /\ arg' = x
         /\ resColor' = toQColorRgbUnbound(profile, x)
    /\ op' = "toQColorRgbUnbound"
    /\ resLch' = ZeroLch
    /\ UNCHANGED <<objectVars, imageVars, lastCall, returned, untouchedByHistory>>

HistoryNearestByChroma ==
    /\ \E x \in HistoryColors :
         /\ arg' = x
         /\ resLch' = nearestInGamutColorByAdjustingChroma(profile, m_blackpointL,
                                                           m_whitepointL, x)
    /\ op' = "nearestInGamutColorByAdjustingChroma"
    /\ resColor' = InvalidColor
    /\ UNCHANGED <<objectVars, imageVars, lastCall, returned, untouchedByHistory>>

HistoryNearestByChromaLightness ==
    /\ \E x \in HistoryColors :
         LET r == nearestInGamutColorByAdjustingChromaLightness(
                      profile, m_image, m_hue, m_imageSizePhysical, x)
             temp == IF x.c < 0 THEN [x EXCEPT !.c = 0] ELSE x
         IN  /\ arg' = x
             /\ resLch' = r.result
             /\ m_image' = r.image
             /\ m_hue' = r.hue
             /\ IF isInGamut(profile, temp)
                THEN UNCHANGED <<lastCall, returned>>
                ELSE /\ lastCall' = [object |-> "ChromaLightnessImage", name |-> "setHue",
                                     same |-> temp.h = m_hue, hadCache |-> ~m_image.isNull]
                     /\ returned' = r.image
    /\ op' = "nearestInGamutColorByAdjustingChromaLightness"
    /\ resColor' = InvalidColor
    /\ UNCHANGED <<objectVars, m_imageSizePhysical, untouchedByHistory>>

NextHistory ==
    \/ HistoryToQColorRgbUnbound
    \/ HistoryNearestByChroma
    \/ HistoryNearestByChromaLightness

SpecHistory == InitHistory /\ [][NextHistory]_vars

\* what nearestInGamutColorByAdjustingChromaLightness returns for x as the
\* first query on the colour space
FirstQueryResult(x) ==
    nearestInGamutColorByAdjustingChromaLightness(
        profile, NullImage, 0, nearestNeighborImageSize, x).result

\* C22: a constructed colour space behaves as immutable: whatever queries
\* came before, nearestInGamutColorByAdjustingChromaLightness(x) returns
\* what it returns for x as the first query, the raster it searches is the
\* one rendered for the hue of x, and no query changes blackpoint,
\* whitepoint, profile or transform handles.
C22_HistoryIndependent ==
    [][/\ UNCHANGED objectVars
       /\ op' = "nearestInGamutColorByAdjustingChromaLightness" =>
             /\ resLch' = FirstQueryResult(arg')
             /\ returned' # returned =>
                   returned' = render(profile, arg'.h, nearestNeighborImageSize)
       /\ ~m_image'.isNull => m_image' = render(profile, m_hue', nearestNeighborImageSize)
      ]_vars

\* a query found a raster cached for another hue, and searching that raster
\* would have given another colour than the one returned
C22_Witness ==
    /\ op = "nearestInGamutColorByAdjustingChromaLightness"
    /\ lastCall.name = "setHue" /\ lastCall.hadCache /\ ~lastCall.same
    /\ ~isInGamut(profile, arg)
    /\ \E h \in {0, 90} :
         /\ h # arg.h
         /\ nearestInGamutColorByAdjustingChromaLightness(
                profile, render(profile, h, nearestNeighborImageSize), arg.h,
                nearestNeighborImageSize, arg).result # resLch

\* the input of the running nearestInGamutColorByAdjustingChroma call after
\* its normalization by PolarPointF
NormalizedSearchInput ==
    LET temp == PolarPointF(search.color.c, search.color.h)
    IN  [l |-> search.color.l, c |-> temp.m_radial, h |-> temp.m_angleDegree]

\* the running call took the branch of the bisection
BisectionEntered ==
    /\ search.routine = "nearestInGamutColorByAdjustingChroma"
    /\ ~isInGamut(search.profile, NormalizedSearchInput)
    /\ isInGamut(search.profile, [NormalizedSearchInput EXCEPT !.c = 0])

\* lowerChroma and upperChroma have the lightness and hue of the normalized
\* input, lowerChroma is in gamut, upperChroma is out of gamut and not above
\* the chroma of the normalized input
BisectionBounds ==
    /\ search.lowerChroma.l = NormalizedSearchInput.l
    /\ search.lowerChroma.h = NormalizedSearchInput.h
    /\ search.upperChroma.l = NormalizedSearchInput.l
    /\ search.upperChroma.h = NormalizedSearchInput.h
    /\ isInGamut(search.profile, search.lowerChroma)
    /\ ~isInGamut(search.profile, search.upperChroma)
    /\ 0 <= search.lowerChroma.c
    /\ search.lowerChroma.c < search.upperChroma.c
    /\ search.upperChroma.c <= NormalizedSearchInput.c

\* C23: when the normalized input is out of gamut and chroma 0 is in gamut
\* at its lightness, the bisection keeps lowerChroma in gamut and upperChroma
\* out of gamut, and on exit the returned colour is lowerChroma: in gamut and
\* at most gamutPrecision below an out-of-gamut chroma that is not above the
\* chroma of the normalized input.
C23_BisectionInvariant ==
    BisectionEntered =>
        /\ search.pc \in {"bisection", "exit"}
        /\ BisectionBounds
        /\ search.pc = "exit" =>
              /\ search.result = search.lowerChroma
              /\ isInGamut(search.profile, search.result)
              /\ search.upperChroma.c - search.result.c <= gamutPrecision

\* a bisection has ended after moving both ends of its interval
C23_Witness ==
    /\ BisectionEntered
    /\ search.pc = "exit"
    /\ 0 < search.result.c
    /\ search.upperChroma.c < NormalizedSearchInput.c

(***************************************************************************)
(* nearestNeighborSearch and nearestInGamutColorByAdjustingChromaLightness *)
(* as functions of their arguments.  The squares of the distances are      *)
(* computed in int; when the exact value is beyond IntMax the behaviour is *)
(* undefined: the usual build leaves the wrapped value, a build that traps *)
(* signed overflow ends the program.                                       *)
(***************************************************************************)
\* the largest image handed to nearestNeighborSearch directly
MaxNeighborWidth == 3

MaxNeighborHeight == 2

\* an x coordinate so far from the image that the square of its distance
\* to column 0 is beyond IntMax, while that to column 1 is not
FarX == 12

\* every image up to the largest size, with every set of opaque pixels
NeighborImages ==
    { NullImage } \cup
    UNION { { [isNull |-> FALSE, width |-> w, height |-> h, opaque |-> o] :
                o \in SUBSET ((0..(w - 1)) \X (0..(h - 1))) } :
            w \in 1..MaxNeighborWidth, h \in 1..MaxNeighborHeight }

\* query points inside the image, next to it and far from it
NeighborPoints ==
    [x : (-1..MaxNeighborWidth) \cup {FarX, -FarX}, y : -1..MaxNeighborHeight]

\* what a build does with a signed overflow
OverflowBuilds == {"wraps", "traps"}

distanceSquare(originalPoint, x, y) ==
    (originalPoint.x - x) * (originalPoint.x - x)
        + (originalPoint.y - y) * (originalPoint.y - y)

\* the scan of lines 655-668 computes a square of a distance beyond IntMax
scanOverflows(originalPoint, image) ==
    /\ ~(valid(image, originalPoint)
           /\ alphaIs255(image, originalPoint.x, originalPoint.y))
    /\ \E px \in image.opaque : distanceSquare(originalPoint, px[1], px[2]) > IntMax

\* the colours asked about: every lightness and hue, chroma beyond the raster
NeighborColors == { x \in Colors : x.c >= MaxChromaInput * gamutPrecision }

NeighborCalled(routine) ==
    [routine |-> routine, pc |-> "exit", profile |-> SrgbProfile, color |-> ZeroLch,
     searched |-> TRUE, image |-> NullImage, originalPoint |-> [x |-> 0, y |-> 0],
     found |-> [x |-> 0, y |-> 0], result |-> ZeroLch]

untouchedByNeighbor == <<rgbVars, callVars, wheel, widgetVars, lifetime>>

InitNeighbor ==
    RgbAtRest /\ SearchAtRest /\ CallsAtRest /\ LifetimeAtRest /\ WheelAtRest /\ WidgetsAtRest

\* nearestNeighborSearch(originalPoint, image)
NeighborSearchCall ==
    /\ search.pc = "idle"
    /\ \E image \in NeighborImages, originalPoint \in NeighborPoints,
          build \in OverflowBuilds :
         search' = [NeighborCalled("nearestNeighborSearch") EXCEPT
                        !.image = image, !.originalPoint = originalPoint,
                        !.found = nearestNeighborSearch(originalPoint, image),
                        !.pc = IF scanOverflows(originalPoint, image) /\ build = "traps"
                               THEN "trapped" ELSE "exit"]
    /\ UNCHANGED untouchedByNeighbor

\* nearestInGamutColorByAdjustingChromaLightness(color) on a colour space
\* whose initialize() ran to its end
NeighborQueryCall ==
    /\ search.pc = "idle"
    /\ \E p \in HistoryProfiles, color \in NeighborColors :
         LET r == nearestInGamutColorByAdjustingChromaLightness(
                      p, NullImage, 0, nearestNeighborImageSize, color)
             H1 == nearestNeighborSearchImageHeight - 1
             myPixelPosition ==
                 [x |-> qRound(color.c * H1, Hundred),
                  y |-> qRound(H1 * Hundred - color.l * H1, Hundred)]
         IN  search' = [NeighborCalled("nearestInGamutColorByAdjustingChromaLightness")
                            EXCEPT !.profile = p, !.color = color,
                                   !.searched = ~isInGamut(p, color),
                                   !.image = r.image,
                                   !.originalPoint = myPixelPosition,
                                   !.found = nearestNeighborSearch(myPixelPosition, r.image),
                                   !.result = r.result]
    /\ UNCHANGED untouchedByNeighbor

\* the caller is done with the result
NeighborReturn ==
    /\ search.pc \in {"exit", "trapped"}
    /\ search' = NoSearch
    /\ UNCHANGED untouchedByNeighbor

NextNeighbor ==
    \/ NeighborSearchCall
    \/ NeighborQueryCall
    \/ NeighborReturn

SpecNeighbor == InitNeighbor /\ [][NextNeighbor]_vars

\* C24: for every image with at least one fully opaque pixel and every
\* query point, inside or outside the image, nearestNeighborSearch returns a
\* fully opaque pixel whose squared distance to the query point is minimal
\* among the fully opaque pixels, and the query point itself when that is
\* a fully opaque pixel of the image.
C24_NearestOpaquePixel ==
    (search.routine = "nearestNeighborSearch" /\ search.image.opaque # {}) =>
        /\ search.pc = "exit"
        /\ <<search.found.x, search.found.y>> \in search.image.opaque
        /\ \A px \in search.image.opaque :
              distanceSquare(search.originalPoint, search.found.x, search.found.y)
                  <= distanceSquare(search.originalPoint, px[1], px[2])
        /\ <<search.originalPoint.x, search.originalPoint.y>> \in search.image.opaque
              => search.found = search.originalPoint

\* C25: when the raster has no fully opaque pixel, a raster with zero
\* pixels included, nearestNeighborSearch returns (0, 0) for every query
\* point without failing, and nearestInGamutColorByAdjustingChromaLightness
\* then returns the colour of pixel (0, 0): chroma 0 and lightness 100 with
\* the hue of the input.
C25_FallbackPixel ==
    (search.routine # "none" /\ search.searched /\ search.image.opaque = {}) =>
        /\ search.pc = "exit"
        /\ search.found = [x |-> 0, y |-> 0]
        /\ search.routine = "nearestInGamutColorByAdjustingChromaLightness" =>
              search.result = [l |-> Hundred, c |-> 0, h |-> search.color.h]

\* an out-of-gamut colour was asked about on a colour space whose raster for
\* the hue of the colour has pixels, none of them in gamut, and the query
\* point is not pixel (0, 0)
C25_Witness ==
    /\ search.routine = "nearestInGamutColorByAdjustingChromaLightness"
    /\ search.searched
    /\ ~search.image.isNull
    /\ search.image.opaque = {}
    /\ search.originalPoint # [x |-> 0, y |-> 0]
    /\ search.result = [l |-> Hundred, c |-> 0, h |-> search.color.h]

\* C26: over any sequence of mouse press, move, release and wheel events the
\* widget tracks the mouse exactly from a press inside the wheel ribbon to
\* the next release (a press outside the ribbon starts no tracking, a
\* release ends it); a move or release changes the hue only when the mouse
\* was tracked before it; and a wheel event that arrives while the mouse is
\* tracked leaves the hue unchanged and emits nothing.
C26_TrackingFollowsPress ==
    [][/\ colorWheel'.m_mouseEventActive = colorWheel'.pressed
       /\ (/\ colorWheel'.handler \in {"mouseMoveEvent", "mouseReleaseEvent"}
           /\ colorWheel'.m_hue # colorWheel.m_hue) => colorWheel.pressed
       /\ colorWheel'.handler = "mouseReleaseEvent" => ~colorWheel'.m_mouseEventActive
       /\ (colorWheel'.handler = "wheelEvent" /\ colorWheel.pressed) =>
             /\ colorWheel'.m_hue = colorWheel.m_hue
             /\ ~colorWheel'.hueChanged
             /\ colorWheel'.m_mouseEventActive
      ]_vars

\* a wheel event arrived while the mouse was tracked after a press that had
\* moved the hue
C26_Witness ==
    /\ colorWheel.handler = "wheelEvent"
    /\ colorWheel.pressed
    /\ colorWheel.m_mouseEventActive
    /\ colorWheel.m_hue # defaultHue

\* a step in which a handler of the MultiSpinBox has run
SpinBoxHandlerRan(handler) ==
    spinBox'.calls = spinBox.calls + 1 /\ spinBox'.handler = handler

\* C27: focusNextPrevChild(true) moves to the next section and returns true
\* exactly when the current section is not the last, focusNextPrevChild(false)
\* moves to the previous one exactly when the current section is not the
\* first; otherwise the current section stays and the base class gets the
\* call.  Focus-in by Tab selects section 0 and by Backtab the last section;
\* focus-out by Tab, Backtab, shortcut or mouse selects section 0.
C27_FocusMovesSection ==
    [][LET last == Len(spinBox.m_sections) - 1
           index == spinBox.m_currentIndex
       IN  /\ SpinBoxHandlerRan("focusNextPrevChild") /\ spinBox'.argument = "true" =>
                  IF index < last
                  THEN spinBox'.m_currentIndex = index + 1 /\ spinBox'.result = "true"
                  ELSE /\ spinBox'.m_currentIndex = index
                       /\ spinBox'.result = "QWidget::focusNextPrevChild"
           /\ SpinBoxHandlerRan("focusNextPrevChild") /\ spinBox'.argument = "false" =>
                  IF index > 0
                  THEN spinBox'.m_currentIndex = index - 1 /\ spinBox'.result = "true"
                  ELSE /\ spinBox'.m_currentIndex = index
                       /\ spinBox'.result = "QWidget::focusNextPrevChild"
           /\ SpinBoxHandlerRan("focusInEvent") /\ spinBox'.argument = "TabFocusReason" =>
                  spinBox'.m_currentIndex = 0
           /\ SpinBoxHandlerRan("focusInEvent") /\ spinBox'.argument = "BacktabFocusReason" =>
                  spinBox'.m_currentIndex = last
           /\ /\ SpinBoxHandlerRan("focusOutEvent")
              /\ spinBox'.argument \in {"TabFocusReason", "BacktabFocusReason",
                                        "ShortcutFocusReason", "MouseFocusReason"}
              => spinBox'.m_currentIndex = 0]_vars

\* Tab has moved to the last one of several sections and, pressed again,
\* has been handed to the base class
C27_Witness ==
    /\ spinBox.handler = "focusNextPrevChild"
    /\ spinBox.argument = "true"
    /\ spinBox.result = "QWidget::focusNextPrevChild"
    /\ spinBox.m_currentIndex = Len(spinBox.m_sections) - 1
    /\ spinBox.m_currentIndex > 0
    /\ ~spinBox.readBeyondEnd

\* C28: updateCurrentValueFromText with an invalid text (one that does not
\* start with the text before the current value, does not end with the text
\* after it, or has no parsable number between them) changes no value of a
\* section, none of the three texts and not the current index.
C28_InvalidTextIsIgnored ==
    [][/\ SpinBoxHandlerRan("textChanged")
       /\ \/ ~textIsFramed(spinBox, spinBox'.lineEdit)
          \/ ~cleanText(spinBox, spinBox'.lineEdit).ok
       => /\ spinBox'.m_sections = spinBox.m_sections
          /\ spinBox'.m_textBeforeCurrentValue = spinBox.m_textBeforeCurrentValue
          /\ spinBox'.m_textOfCurrentValue = spinBox.m_textOfCurrentValue
          /\ spinBox'.m_textAfterCurrentValue = spinBox.m_textAfterCurrentValue
          /\ spinBox'.m_currentIndex = spinBox.m_currentIndex]_vars

\* C29: in every reachable state the list of sections holds at least one
\* section and the current index is an index of it; setSections with an
\* empty list changes nothing, and setSections with fewer sections than
\* before never reads a section at an index outside the new list.
C29_IndexWithinSections ==
    /\ [](/\ Len(spinBox.m_sections) >= 1
          /\ spinBox.m_currentIndex >= 0
          /\ spinBox.m_currentIndex < Len(spinBox.m_sections)
          /\ ~spinBox.readBeyondEnd)
    /\ [][SpinBoxHandlerRan("setSections") /\ spinBox'.argument = "empty list" =>
              /\ spinBox'.m_sections = spinBox.m_sections
              /\ spinBox'.m_currentIndex = spinBox.m_currentIndex
              /\ spinBox'.lineEdit = spinBox.lineEdit
              /\ spinBox'.m_validator = spinBox.m_validator]_vars

\* C30: after every operation the validator's prefix, suffix and range are
\* the text before the current value, the text after it and the minimum
\* and maximum of the current section, also after setSections has replaced
\* the sections while the current index was 0 already.
C30_ValidatorFollowsSection ==
    ~spinBox.aborted =>
        spinBox.m_validator =
            [prefix |-> spinBox.m_textBeforeCurrentValue,
             suffix |-> spinBox.m_textAfterCurrentValue,
             bottom |-> spinBox.m_sections[spinBox.m_currentIndex + 1].minimum,
             top |-> spinBox.m_sections[spinBox.m_currentIndex + 1].maximum]

====
